---------------------------- MODULE Spec2Model ----------------------------
(***************************************************************************)
(* A model of the 4D project utilities of e-marchand/skills:               *)
(*   - the project root locators (find_project_root) of add_dependency.py, *)
(*     project_info.py, clean.py and install_workflows.py, run against a   *)
(*     small filesystem tree, together with the entry points that call     *)
(*     them (SpecRoot);                                                    *)
(*   - the class / method extractors of project_info.py (analyze_class,    *)
(*     analyze_method), applied to one class file (SpecClass) and by the   *)
(*     scan loops of main over the sorted source files (SpecScan).         *)
(* Each specification drives its own group of variables and leaves the     *)
(* other group at its initial value.                                       *)
(***************************************************************************)
EXTENDS Naturals, Integers, Sequences, FiniteSets, TLC

VARIABLES
    \* --- filesystem and entry points (SpecRoot) ---
    dirs,       \* set of absolute paths (sequences of names) that are directories
    files,      \* set of absolute paths that are regular files
    phase,      \* "build": the tree is being laid out; "done": an entry point ran
    tool,       \* which entry point ran
    start,      \* the start path (or working directory) it was given
    located,    \* what its find_project_root returned
    exitCode,   \* process outcome of the entry point
    touched,    \* project files read, created or modified after root resolution
    cmds,       \* external commands issued (git)
    prompting,  \* install_workflows, publish: main's interactive flag (not --yes)
    \* --- source scan of project_info.py (SpecClass, SpecScan) ---
    methodsDir, \* entries of Project/Sources/Methods (a set of files)
    classesDir, \* entries of Project/Sources/Classes (a set of files)
    pc,         \* position of main in its scan
    todo,       \* the sorted glob result the running for loop still has to visit
    methods,    \* main: methods
    classes,    \* main: classes
    output,     \* main: the report printed (full or compact)
    \* --- the rest of the walk of project_info.py (SpecScan, SpecForms) ---
    sourcesDir, \* what else Project and Project/Sources hold
    db_methods, \* main: db_methods
    forms,      \* main: forms
    deps,       \* main: deps
    settings,   \* main: settings
    has_catalog, \* main: has_catalog
    report,     \* main: report
    \* --- TextExtractor of doc_lookup.py (SpecExtract) ---
    text_parts, \* self.text_parts
    in_article, \* self.in_article
    skip,       \* self.skip
    depth,      \* self.depth
    fed,        \* the parser events delivered so far, in order
    \* --- publish.py of 4d-publish-github (SpecPublish) ---
    host,       \* what the machine and the project folder hold
    calls,      \* the shell commands run so far, each with its outcome
    steps,      \* the steps main has run, each with what it returned
    at,         \* the step main runs next
    status,     \* what main returned
    \* --- dependency files of add_dependency.py (SpecManifest, SpecLocal) ---
    fileData,   \* parsed-or-not contents of the JSON files, by path
    snapshot,   \* files and fileData as they were before the last run
    lastArgs,   \* command line of the last run
    prevArgs,   \* command line of the run before it
    runs        \* number of runs so far

rootVars == <<dirs, files, phase, tool, start, located, exitCode, touched, cmds,
             prompting>>
scanVars == <<methodsDir, classesDir, pc, todo, methods, classes, output>>
depVars == <<fileData, snapshot, lastArgs, prevArgs, runs>>
walkVars == <<sourcesDir, db_methods, forms, deps, settings, has_catalog, report>>
extractVars == <<text_parts, in_article, skip, depth, fed>>
publishVars == <<host, calls, steps, at, status>>
vars == <<rootVars, scanVars, depVars, walkVars, extractVars, publishVars>>

(***************************************************************************)
(* Bounds of the model.                                                    *)
(***************************************************************************)
MaxEntries == 4     \* entries (directories and files) below the filesystem root
MaxDepth == 4       \* longest path, in components
MaxLines == 4       \* lines of the class file of SpecClass
MaxFiles == 2       \* source files in the two scanned folders of SpecScan
MaxPages == 3       \* elements or keys of a form's pages field
MaxForms == 2       \* entries of the Forms folder of SpecForms
MaxEvents == 5      \* parser events fed to one TextExtractor
MaxRuns == 2        \* runs of add_dependency.py on one tree

(***************************************************************************)
(* Paths.  A path is the sequence of its components; <<>> is the           *)
(* filesystem root "/".  Start paths are drawn absolute and normalised,    *)
(* which is what Path.resolve() produces.                                  *)
(***************************************************************************)
FsRoot == <<>>

\* pathlib: Path("/").parent == Path("/")
Parent(p) == IF p = <<>> THEN <<>> ELSE SubSeq(p, 1, Len(p) - 1)

\* pathlib: Path("/").name == ""
Name(p) == IF p = <<>> THEN "" ELSE p[Len(p)]

IsDir(p) == p \in dirs
IsFile(p) == p \in files
Exists(p) == IsDir(p) \/ IsFile(p)

\* directory.iterdir(): the entries directly inside a directory
Children(d) == IF IsDir(d) THEN {p \in dirs \cup files : p # <<>> /\ Parent(p) = d} ELSE {}

\* names whose extension (Path.suffix) is ".4DProject"
MarkerNames == {"m.4DProject", "n.4DProject"}
HasProjectSuffix(n) == n \in MarkerNames

\* [p, *p.parents]: the path and every ancestor up to and including "/"
Chain(p) == {SubSeq(p, 1, k) : k \in 0..Len(p)}

IsPrefix(r, p) == Len(r) <= Len(p) /\ SubSeq(p, 1, Len(r)) = r

\* the result of a locator
Found(d) == [found |-> TRUE, root |-> d]
NotFound == [found |-> FALSE, root |-> <<>>]


(***************************************************************************)
(* add_dependency.py: find_project_root.  The three tests made on one      *)
(* directory of the walk, and the walk itself, which stops as soon as      *)
(* current == current.parent, that is, without testing "/".                *)
(***************************************************************************)
MarkerAddDependency(current) ==
    IF IsDir(current \o <<"Project", "Sources">>) THEN Found(current)
    ELSE IF Name(current) = "Sources" /\ Name(Parent(current)) = "Project"
         THEN Found(Parent(Parent(current)))
    ELSE IF Name(current) = "Project" /\ IsDir(current \o <<"Sources">>)
         THEN Found(Parent(current))
    ELSE NotFound

RECURSIVE WalkAddDependency(_)
WalkAddDependency(current) ==
    IF current = Parent(current) THEN NotFound
    ELSE IF MarkerAddDependency(current).found THEN MarkerAddDependency(current)
    ELSE WalkAddDependency(Parent(current))

\* mutant: the walk runs from the filesystem side inward (farthest match wins)
RECURSIVE WalkAddDependencyInward(_)
WalkAddDependencyInward(current) ==
    IF current = Parent(current) THEN NotFound
    ELSE IF WalkAddDependencyInward(Parent(current)).found
         THEN WalkAddDependencyInward(Parent(current))
    ELSE MarkerAddDependency(current)

find_project_root_add_dependency(start_path) == WalkAddDependency(start_path)

(***************************************************************************)
(* project_info.py: find_project_root.  A file start path is replaced by   *)
(* its directory; every directory of [p, *p.parents] is tested, "/"        *)
(* included; any entry of d/Project with suffix .4DProject qualifies d.    *)
(***************************************************************************)
\* mutant: any entry of Project qualifies, whatever its suffix
MarkerProjectInfoAnyEntry(d) ==
    IF IsDir(d \o <<"Project">>) /\ Children(d \o <<"Project">>) # {}
    THEN Found(d) ELSE NotFound

MarkerProjectInfo(d) ==
    IF IsDir(d \o <<"Project">>)
       /\ \E f \in Children(d \o <<"Project">>) : HasProjectSuffix(Name(f))
    THEN Found(d) ELSE NotFound

\* mutant: the walk stops before testing the filesystem root
RECURSIVE WalkProjectInfoSkipRoot(_)
WalkProjectInfoSkipRoot(d) ==
    IF d = <<>> THEN NotFound
    ELSE IF MarkerProjectInfo(d).found THEN MarkerProjectInfo(d)
    ELSE WalkProjectInfoSkipRoot(Parent(d))

RECURSIVE WalkProjectInfo(_)
WalkProjectInfo(d) ==
    IF MarkerProjectInfo(d).found THEN MarkerProjectInfo(d)
    ELSE IF d = <<>> THEN NotFound
    ELSE WalkProjectInfo(Parent(d))

find_project_root_project_info(start_path) ==
    WalkProjectInfo(IF IsFile(start_path) THEN Parent(start_path) ELSE start_path)

(***************************************************************************)
(* clean.py: find_project_root.  Two tests per directory of                *)
(* [current] + current.parents; only regular files count as markers.       *)
(* NotFound stands for the FileNotFoundError it raises.                    *)
(***************************************************************************)
MarkerFilesIn(folder) == {f \in Children(folder) : HasProjectSuffix(Name(f)) /\ IsFile(f)}

MarkerClean(directory) ==
    IF IsDir(directory \o <<"Project">>) /\ MarkerFilesIn(directory \o <<"Project">>) # {}
    THEN Found(directory)
    ELSE IF Name(directory) = "Project" /\ MarkerFilesIn(directory) # {}
    THEN Found(Parent(directory))
    ELSE NotFound

RECURSIVE WalkClean(_)
WalkClean(directory) ==
    IF MarkerClean(directory).found THEN MarkerClean(directory)
    ELSE IF directory = <<>> THEN NotFound
    ELSE WalkClean(Parent(directory))

find_project_root_clean(start_path) == WalkClean(start_path)

(***************************************************************************)
(* install_workflows.py: find_project_root.  Only the working directory    *)
(* and its parent are tested (glob "Project/*.4DProject" matches files and *)
(* directories alike); when neither matches the working directory itself   *)
(* is returned.                                                            *)
(***************************************************************************)
GlobProjectMarkers(d) == {f \in Children(d \o <<"Project">>) : HasProjectSuffix(Name(f))}

find_project_root_install_workflows(cwd) ==
    IF GlobProjectMarkers(cwd) # {} THEN Found(cwd)
    ELSE IF GlobProjectMarkers(Parent(cwd)) # {} THEN Found(Parent(cwd))
    ELSE Found(cwd)


(***************************************************************************)
(* install_workflows.py: install_workflows.  None is the string "None";    *)
(* build is "None" / "True" / "False", release is "None" / "tag" /         *)
(* "create"; answer_build and answer_release are the two prompt answers    *)
(* ("n" or anything else; "1", "2" or anything else).  The bundled         *)
(* workflow templates are present, so copy_workflow copies.                *)
(***************************************************************************)
Truthy(x) == x \notin {"None", "False"}

InstallBuildChoice(build_exists, build, interactive, answer_build) ==
    IF interactive
    THEN IF ~build_exists /\ build = "None"
         THEN (IF answer_build # "n" THEN "True" ELSE "False")
         ELSE build
    ELSE IF build = "None" THEN (IF ~build_exists THEN "True" ELSE "False")
         ELSE build

InstallReleaseChoice(release_exists, release, interactive, answer_release) ==
    IF interactive /\ ~release_exists /\ release = "None"
    THEN (IF answer_release = "1" THEN "tag"
          ELSE IF answer_release = "2" THEN "create" ELSE "None")
    ELSE release

\* mutant: a build workflow that was asked for is copied in any case
CopyBuildAlways(install_build, build_exists) == Truthy(install_build)

\* if install_build and not build_exists
CopyBuild(install_build, build_exists) == Truthy(install_build) /\ ~build_exists

install_workflows(build_exists, release_exists, build, release, interactive, answer_build, answer_release) ==
    IF build_exists /\ release_exists
    THEN [mkdir |-> FALSE, copy_build |-> FALSE, copy_release |-> "None", ret |-> TRUE]
    ELSE LET install_build ==
                 InstallBuildChoice(build_exists, build, interactive, answer_build)
             install_release ==
                 InstallReleaseChoice(release_exists, release, interactive, answer_release)
         IN  [mkdir |-> Truthy(install_build) \/ Truthy(install_release),
              copy_build |-> CopyBuild(install_build, build_exists),
              copy_release |-> IF Truthy(install_release) /\ ~release_exists
                               THEN install_release ELSE "None",
              ret |-> Truthy(install_build) \/ Truthy(install_release)]

\* commit_and_push: the git commands it issues.  dirty: "git status
\* --porcelain .github/workflows/" printed something; answer_commit: the
\* prompt answer; remote: "git remote get-url origin" printed a URL.
commit_and_push(interactive, dirty, answer_commit, remote) ==
    IF ~dirty THEN <<"git status">>
    ELSE IF interactive /\ answer_commit = "n" THEN <<"git status">>
    ELSE <<"git status", "git add", "git commit", "git remote get-url">>
         \o (IF remote THEN <<"git push">> ELSE <<>>)

(***************************************************************************)
(* SpecRoot: the filesystem is laid out entry by entry, then one entry     *)
(* point runs on it from an existing start path.                           *)
(***************************************************************************)
DirNames == {"Project", "Sources", "a"}
Tools == {"add_dependency", "project_info", "clean", "install_workflows"}

EntryCount == Cardinality(dirs) - 1 + Cardinality(files)

\* a JSON value below the top level: an array of elems, an object whose
\* member keys are elems, or a scalar
JArray(elems) == [t |-> "array", elems |-> elems]
JObject(keys) == [t |-> "object", elems |-> keys]
JScalar == [t |-> "scalar", elems |-> <<>>]

\* the text of a JSON file: unparseable, or a top-level value
JBad == [t |-> "bad", members |-> <<>>]
JTopObject(members) == [t |-> "object", members |-> members]
JTopOther(t) == [t |-> t, members |-> <<>>]

\* a file on disk: absent, present and readable, or present but unreadable
NoFile == [exists |-> FALSE, readable |-> FALSE, data |-> JBad]
TextFile(data) == [exists |-> TRUE, readable |-> TRUE, data |-> data]
UnreadableFile == [exists |-> TRUE, readable |-> FALSE, data |-> JBad]

\* a folder that is not there
NoFolder == [exists |-> FALSE, entries |-> {}]
NoListing == [exists |-> FALSE, listing |-> <<>>]

\* the .4DProject file find_project_root saw in Project
ProjectFile(name, data) == [name |-> name, file |-> TextFile(data)]

\* Project/Sources without Forms, DatabaseMethods, dependencies.json,
\* settings.4DSettings and catalog.4DCatalog
BareSources ==
    [forms_dir |-> NoFolder, database_methods_dir |-> NoListing,
     dep_file |-> NoFile, project_files |-> <<ProjectFile("P.4DProject", JTopObject(<<>>))>>,
     has_settings |-> FALSE, has_catalog |-> FALSE]

NoDeps == [file_exists |-> FALSE, error |-> FALSE, dependencies |-> JObject(<<>>)]
NoSettings ==
    [parsed |-> FALSE, project_file |-> "", compatibility_version |-> JScalar,
     tokenized_text |-> JScalar, has_settings |-> FALSE]
NoSummary ==
    [methods_count |-> 0, classes_count |-> 0, forms_count |-> 0,
     database_methods |-> <<>>, has_catalog |-> FALSE, total_code_lines |-> 0,
     dependencies |-> NoDeps]
NoReport ==
    [project_root |-> <<>>, settings |-> NoSettings, summary |-> NoSummary,
     methods |-> <<>>, classes |-> <<>>, forms |-> <<>>]

\* nothing walked yet
WalkIdle ==
    /\ db_methods = <<>> /\ forms = <<>> /\ deps = NoDeps /\ settings = NoSettings
    /\ has_catalog = FALSE /\ report = NoReport

\* nothing printed yet
NoOutput ==
    [fmt |-> "none", project_root |-> <<>>, settings |-> NoSettings,
     summary |-> NoSummary, methods |-> <<>>, classes |-> <<>>, forms |-> <<>>,
     method_names |-> <<>>, class_names |-> <<>>, form_names |-> <<>>]

\* a machine with nothing installed, before main runs
NoHost ==
    [git |-> FALSE, gh |-> FALSE, brew |-> FALSE, darwin |-> FALSE, repo |-> FALSE,
     remote |-> FALSE, authed |-> FALSE, readme |-> FALSE, description |-> FALSE]

PublishIdle ==
    /\ host = NoHost /\ calls = <<>> /\ steps = <<>> /\ at = "idle" /\ status = -1

\* TextExtractor.__init__
ExtractorNew ==
    /\ text_parts = <<>> /\ in_article = FALSE /\ skip = FALSE /\ depth = 0
    /\ fed = <<>>

ScanIdle ==
    /\ methodsDir = {} /\ classesDir = {} /\ pc = "idle" /\ todo = <<>>
    /\ methods = <<>> /\ classes = <<>> /\ output = NoOutput
    /\ sourcesDir = BareSources /\ WalkIdle
    /\ ExtractorNew
    /\ PublishIdle

\* no command line
NoArgs == [repo |-> [kind |-> "none", segs |-> <<>>], name_override |-> "",
           tag |-> "", version |-> "", project_path |-> <<>>]

DepIdle ==
    /\ fileData = <<>> /\ snapshot = [files |-> {}, fileData |-> <<>>]
    /\ lastArgs = NoArgs /\ prevArgs = NoArgs /\ runs = 0

RootInit ==
    /\ dirs = {<<>>}
    /\ files = {}
    /\ phase = "build"
    /\ tool = "none"
    /\ start = <<>>
    /\ located = NotFound
    /\ exitCode = -1
    /\ touched = {}
    /\ cmds = <<>>
    /\ prompting = FALSE
    /\ ScanIdle
    /\ DepIdle

\* os.mkdir of one more directory.  Entries named *.4DProject, and a
\* regular file named Sources, are laid out inside Project folders only,
\* the one place where a locator can tell them from any other entry.
Mkdir(parent, name) ==
    /\ phase = "build"
    /\ EntryCount < MaxEntries
    /\ IsDir(parent) /\ Len(parent) < MaxDepth
    /\ Name(parent) \in DirNames \cup {""}
    /\ name \in MarkerNames => Name(parent) = "Project"
    /\ ~Exists(parent \o <<name>>)
    /\ dirs' = dirs \cup {parent \o <<name>>}
    /\ UNCHANGED <<files, phase, tool, start, located, exitCode, touched, cmds, prompting>>
    /\ UNCHANGED <<scanVars, depVars, walkVars, extractVars, publishVars>>

\* creation of one more regular file
Touch(parent, name) ==
    /\ phase = "build"
    /\ EntryCount < MaxEntries
    /\ IsDir(parent) /\ Len(parent) < MaxDepth
    /\ Name(parent) = "Project"
    /\ ~Exists(parent \o <<name>>)
    /\ files' = files \cup {parent \o <<name>>}
    /\ UNCHANGED <<dirs, phase, tool, start, located, exitCode, touched, cmds, prompting>>
    /\ UNCHANGED <<scanVars, depVars, walkVars, extractVars, publishVars>>


\* add_dependency.py: main -> add_dependency, called with a remote
\* (owner/repo) dependency.  With no root it returns success = False before
\* any file access (exit 1).  Otherwise it loads and saves
\* <root>/Project/Sources/dependencies.json; save_json_file's mkdir raises
\* when Project/Sources is not a directory (exit 1 by the uncaught exception).
AddDependencyMain(start_path) ==
    /\ phase = "build"
    /\ Exists(start_path)
    /\ LET project_root == find_project_root_add_dependency(start_path)
           sources == project_root.root \o <<"Project", "Sources">>
           deps_file == sources \o <<"dependencies.json">>
       IN  /\ located' = project_root
           /\ IF ~project_root.found
              THEN /\ exitCode' = 1 /\ touched' = {} /\ files' = files
              ELSE IF IsDir(sources)
              THEN /\ exitCode' = 0 /\ touched' = {deps_file}
                   /\ files' = files \cup {deps_file}
              ELSE /\ exitCode' = 1 /\ touched' = {} /\ files' = files
    /\ phase' = "done" /\ tool' = "add_dependency" /\ start' = start_path
    /\ UNCHANGED <<dirs, cmds, prompting>>
    /\ UNCHANGED <<scanVars, depVars, walkVars, extractVars, publishVars>>

\* project_info.py: main.  With no root it prints the error report and
\* exits 1.  Otherwise analyze_settings reads the first *.4DProject entry
\* that iterdir yields (directory order is not specified by the platform;
\* nothing is read when the loop meets no such entry),
\* and the report is printed.  The source folders scanned by main are laid
\* out and scanned in SpecScan.
ProjectInfoMain(start_path) ==
    /\ phase = "build"
    /\ Exists(start_path)
    /\ LET root == find_project_root_project_info(start_path)
       IN  /\ located' = root
           /\ IF ~root.found
              THEN /\ exitCode' = 1 /\ touched' = {}
              ELSE /\ exitCode' = 0
                   /\ touched' \in IF GlobProjectMarkers(root.root) = {} THEN {{}}
                                   ELSE {{f} : f \in GlobProjectMarkers(root.root)}
    /\ phase' = "done" /\ tool' = "project_info" /\ start' = start_path
    /\ UNCHANGED <<dirs, files, cmds, prompting>>
    /\ UNCHANGED <<scanVars, depVars, walkVars, extractVars, publishVars>>

\* clean.py: main.  FileNotFoundError is caught and the process exits 1.
\* Otherwise clean_project removes DerivedData, Libraries, userPreferences.*,
\* Project/Trash, Logs/* and system files, none of which this tree holds.
CleanMain(start_path) ==
    /\ phase = "build"
    /\ Exists(start_path)
    /\ LET project_dir == find_project_root_clean(start_path)
       IN  /\ located' = project_dir
           /\ exitCode' = IF project_dir.found THEN 0 ELSE 1
    /\ touched' = {}
    /\ phase' = "done" /\ tool' = "clean" /\ start' = start_path
    /\ UNCHANGED <<dirs, files, cmds, prompting>>
    /\ UNCHANGED <<scanVars, depVars, walkVars, extractVars, publishVars>>

\* install_workflows.py: main, up to the call of install_workflows.
\* parse_args turns the flags into (interactive, build, release); the
\* function result r is install_workflows on the workflow files present.
WorkflowsDir(project_root) == project_root \o <<".github", "workflows">>

BuildExists(project_root) == Exists(WorkflowsDir(project_root) \o <<"build.yml">>)

ReleaseExists(project_root) ==
    \/ Exists(WorkflowsDir(project_root) \o <<"release.yml">>)
    \/ Exists(WorkflowsDir(project_root) \o <<"releaseOnTag.yml">>)
    \/ Exists(WorkflowsDir(project_root) \o <<"releaseOnCreate.yml">>)

\* every run of install_workflows that some command line and some prompt
\* answers produce on project_root: its result, and what main keeps for
\* the commit step
InstallRuns(project_root) ==
    { [r |-> install_workflows(
                 BuildExists(project_root), ReleaseExists(project_root),
                 IF yes THEN (IF build_flag THEN "True" ELSE "False") ELSE "None",
                 IF release_on_tag THEN "tag"
                 ELSE IF release_on_create THEN "create" ELSE "None",
                 ~yes, answer_build, answer_release),
       interactive |-> ~yes,
       no_push |-> no_push] :
        yes \in BOOLEAN, build_flag \in BOOLEAN, release_on_tag \in BOOLEAN,
        release_on_create \in BOOLEAN, no_push \in BOOLEAN,
        answer_build \in {"y", "n"}, answer_release \in {"1", "2", "3"} }

InstallWorkflowsMain(cwd, run) ==
    /\ phase = "build"
    /\ IsDir(cwd)
    /\ LET project_root == find_project_root_install_workflows(cwd)
           workflows_dir == WorkflowsDir(project_root.root)
           made == IF run.r.mkdir
                   THEN {project_root.root \o <<".github">>, workflows_dir} \ dirs
                   ELSE {}
           copied == (IF run.r.copy_build THEN {workflows_dir \o <<"build.yml">>} ELSE {})
                     \cup (IF run.r.copy_release # "None"
                           THEN {workflows_dir \o <<"release.yml">>} ELSE {})
       IN  /\ located' = project_root
           /\ dirs' = dirs \cup made
           /\ files' = files \cup copied
           /\ touched' = made \cup copied
    /\ tool' = "install_workflows" /\ start' = cwd
    /\ prompting' = run.interactive
    /\ IF run.r.ret /\ ~run.no_push
       THEN phase' = "commit" /\ exitCode' = exitCode
       ELSE phase' = "done" /\ exitCode' = 0
    /\ UNCHANGED cmds
    /\ UNCHANGED <<scanVars, depVars, walkVars, extractVars, publishVars>>

\* install_workflows.py: main, the call of commit_and_push and return 0
CommitAndPush(dirty, answer_commit, remote) ==
    /\ phase = "commit"
    /\ cmds' = commit_and_push(prompting, dirty, answer_commit, remote)
    /\ exitCode' = 0
    /\ phase' = "done"
    /\ UNCHANGED <<dirs, files, tool, start, located, touched, prompting>>
    /\ UNCHANGED <<scanVars, depVars, walkVars, extractVars, publishVars>>

RootNext ==
    \/ \E parent \in dirs, name \in DirNames \cup {"n.4DProject"} : Mkdir(parent, name)
    \/ \E parent \in dirs, name \in MarkerNames \cup {"Sources"} : Touch(parent, name)
    \/ \E s \in dirs \cup files : AddDependencyMain(s)
    \/ \E s \in dirs \cup files : ProjectInfoMain(s)
    \/ \E s \in dirs \cup files : CleanMain(s)
    \/ /\ phase = "build"
       /\ \E cwd \in dirs :
             \E run \in InstallRuns(find_project_root_install_workflows(cwd).root) :
                 InstallWorkflowsMain(cwd, run)
    \/ \E dirty, remote \in BOOLEAN, answer_commit \in {"y", "n"} :
          CommitAndPush(dirty, answer_commit, remote)

SpecRoot == RootInit /\ [][RootNext]_vars


(***************************************************************************)
(* Properties of the root locators (checked under SpecRoot).               *)
(***************************************************************************)
Ran(t) == phase = "done" /\ tool = t

\* the Marker Scanner of each locator that walks the ancestor chain
MarkerOf(t, d) ==
    CASE t = "add_dependency" -> MarkerAddDependency(d)
      [] t = "project_info" -> MarkerProjectInfo(d)
      [] t = "clean" -> MarkerClean(d)

\* the ancestors of the start path (itself and "/" included) that satisfy
\* a root-marker predicate of tool t
Qualifying(t, s) == {d \in Chain(s) : MarkerOf(t, d).found}

Nearest(Q) == CHOOSE d \in Q : \A e \in Q : Len(e) <= Len(d)

\* the two marker schemes, as properties of a directory
SourcesScheme(d) == IsDir(d \o <<"Project", "Sources">>)
MarkerScheme(d) == GlobProjectMarkers(d) # {}
IsProjectRoot(d) == SourcesScheme(d) \/ MarkerScheme(d)
Roots == {d \in dirs : IsProjectRoot(d)}

\* C1: whenever a locator returns a root, and whenever two or more
\* ancestors of the start path satisfy a root-marker predicate, the result
\* is the root given by the qualifying ancestor nearest to the start path,
\* never the one given by a more distant ancestor.
C1_ClosestAncestorWins ==
    \A t \in {"add_dependency", "project_info", "clean"} :
        Ran(t) =>
            LET Q == Qualifying(t, start)
            IN  (located.found \/ Cardinality(Q) >= 2)
                    => Q # {} /\ located = MarkerOf(t, Nearest(Q))

\* C1 witness: add_dependency ran from a start path with two qualifying
\* ancestors that give different roots, and returned the nearer one's.
C1_Witness ==
    /\ Ran("add_dependency")
    /\ \E d, e \in Qualifying("add_dependency", start) :
           /\ Len(d) > Len(e)
           /\ MarkerAddDependency(d).root # MarkerAddDependency(e).root
           /\ d = Nearest(Qualifying("add_dependency", start))
           /\ located = MarkerAddDependency(d)

\* C2 as stated: with exactly one project root R (under either marker
\* scheme) and the start path inside R, both add_dependency's and
\* project_info's locator return R.
C2_EitherSchemeFound ==
    \A t \in {"add_dependency", "project_info"} :
        Ran(t) =>
            \A R \in dirs : (Roots = {R} /\ IsPrefix(R, start)) => located = Found(R)

\* C2 amended: with exactly one project root R and the start path inside R,
\* project_info's locator returns R exactly when R/Project holds a
\* .4DProject entry, and add_dependency's locator (start path other than a
\* regular file named Sources) returns R exactly when R/Project/Sources is
\* a directory and R is not "/" or the start path lies in R/Project;
\* otherwise each returns NotFound.
C2_OwnSchemeFound ==
    \A R \in dirs :
        (Roots = {R} /\ IsPrefix(R, start)) =>
            /\ Ran("project_info") =>
                   located = IF MarkerScheme(R) THEN Found(R) ELSE NotFound
            /\ (Ran("add_dependency") /\ ~(IsFile(start) /\ Name(start) = "Sources")) =>
                   located = IF SourcesScheme(R)
                                 /\ (R # <<>> \/ IsPrefix(<<"Project">>, start))
                             THEN Found(R) ELSE NotFound

\* C2 witness: project_info ran two levels below the only root, which
\* qualifies by its .4DProject entry alone, and returned it.
C2_Witness ==
    /\ Ran("project_info")
    /\ \E R \in dirs :
           /\ Roots = {R} /\ IsPrefix(R, start) /\ Len(start) >= Len(R) + 2
           /\ ~SourcesScheme(R)
           /\ located = Found(R)

\* C3: add_dependency's and project_info's locator return NotFound exactly
\* when no ancestor of the start directory, the filesystem root included,
\* satisfies a root-marker predicate.
C3_NotFoundIffNoAncestorQualifies ==
    \A t \in {"add_dependency", "project_info"} :
        Ran(t) => (located = NotFound <=> Qualifying(t, start) = {})

\* the entries that make d qualify through the .4DProject marker of tool t
MarkersFor(t, d) ==
    IF t = "clean" THEN MarkerFilesIn(d \o <<"Project">>) ELSE GlobProjectMarkers(d)

\* C4 as stated: a root found by project_info or clean has exactly one
\* .4DProject file in its Project folder.
C4_ExactlyOneMarker ==
    \A t \in {"project_info", "clean"} :
        (Ran(t) /\ located.found) => Cardinality(MarkersFor(t, located.root)) = 1

\* C4 amended: a root found by project_info or clean has at least one
\* .4DProject entry in its Project folder (a folder with none never
\* qualifies), and any ancestor with one or more such entries makes the
\* locator succeed.
C4_AtLeastOneMarker ==
    \A t \in {"project_info", "clean"} :
        Ran(t) =>
            /\ located.found => MarkersFor(t, located.root) # {}
            /\ (\E d \in Chain(start) : MarkersFor(t, d) # {}) => located.found

\* C4 witness: a root was returned whose Project folder holds two
\* .4DProject files.
C4_Witness ==
    /\ Ran("clean")
    /\ located.found
    /\ Cardinality(MarkerFilesIn(located.root \o <<"Project">>)) = 2

\* C5: an entry point that did not resolve a qualifying project root ends
\* with a non-zero outcome and has read, created or modified no file.
C5_NoRootNoFileTouched ==
    phase = "done" =>
        (~(located.found /\ IsProjectRoot(located.root))
            => exitCode # 0 /\ touched = {})


(***************************************************************************)
(* Text.  A file's bytes and a decoded text are sequences of chunks: a     *)
(* chunk is a run of characters that the patterns of analyze_class never   *)
(* split (a keyword, an identifier, one whitespace character, one          *)
(* punctuation character, one line break, one undecodable byte sequence).  *)
(***************************************************************************)
Newline == "\n"
WsChunks == {" ", "\t"}              \* \s
BadBytes == "<invalid utf-8>"        \* a byte sequence that is not UTF-8
Replacement == "<U+FFFD>"            \* what errors="replace" decodes it to
\* chunks made of word characters only, starting a \w[\w.]* match
WordChunks == {"Class", "CLASS", "extends", "EXTENDS", "property", "Property",
               "Function", "function", "exposed", "shared",
               "Foo", "Bar", "x", "bar", "baz", "a", "b"}
DotChunk == "."

\* re.IGNORECASE, on the chunks the patterns name
Lower(c) ==
    CASE c \in {"Class", "CLASS"} -> "class"
      [] c \in {"extends", "EXTENDS"} -> "extends"
      [] c \in {"property", "Property"} -> "property"
      [] c \in {"Function", "function"} -> "function"
      [] OTHER -> c

RECURSIVE LStrip(_)
LStrip(l) == IF l # <<>> /\ Head(l) \in WsChunks THEN LStrip(Tail(l)) ELSE l

RECURSIVE RStrip(_)
RStrip(l) ==
    IF l # <<>> /\ l[Len(l)] \in WsChunks THEN RStrip(SubSeq(l, 1, Len(l) - 1)) ELSE l

\* str.strip()
Strip(l) == RStrip(LStrip(l))

\* bytes.decode("utf-8", errors="replace")
Decode(bytes) == [i \in 1..Len(bytes) |-> IF bytes[i] = BadBytes THEN Replacement ELSE bytes[i]]

\* mutant: errors="strict", the read fails on bytes that are not UTF-8
ReadTextStrict(file) ==
    IF ~file.readable \/ \E i \in 1..Len(file.bytes) : file.bytes[i] = BadBytes
    THEN [ok |-> FALSE, text |-> <<>>]
    ELSE [ok |-> TRUE, text |-> file.bytes]

\* filepath.read_text(encoding="utf-8", errors="replace"): raises only when
\* the file cannot be opened or read
ReadText(file) ==
    IF ~file.readable THEN [ok |-> FALSE, text |-> <<>>]
    ELSE [ok |-> TRUE, text |-> Decode(file.bytes)]

FirstNewline(t) ==
    IF \E i \in 1..Len(t) : t[i] = Newline
    THEN CHOOSE i \in 1..Len(t) : t[i] = Newline /\ \A j \in 1..(i - 1) : t[j] # Newline
    ELSE 0

\* str.splitlines()
RECURSIVE SplitLines(_)
SplitLines(t) ==
    IF t = <<>> THEN <<>>
    ELSE IF FirstNewline(t) = 0 THEN <<t>>
    ELSE <<SubSeq(t, 1, FirstNewline(t) - 1)>>
         \o SplitLines(SubSeq(t, FirstNewline(t) + 1, Len(t)))

(***************************************************************************)
(* The three patterns of analyze_class, each applied with re.match to the  *)
(* stripped line.  A match result is [ok, ...groups].                      *)
(***************************************************************************)
Keyword(l, kw) == l # <<>> /\ Lower(Head(l)) = kw

\* \s+ at the head of l
HasWs(l) == l # <<>> /\ Head(l) \in WsChunks

\* \s+(.+) at the head of l: \s+ is greedy and gives one character back to
\* .+ only when nothing but whitespace follows
WsThenRest(l) ==
    IF ~HasWs(l) THEN [ok |-> FALSE, group |-> <<>>]
    ELSE IF LStrip(l) # <<>> THEN [ok |-> TRUE, group |-> LStrip(l)]
    ELSE IF Len(l) >= 2 THEN [ok |-> TRUE, group |-> <<l[Len(l)]>>]
    ELSE [ok |-> FALSE, group |-> <<>>]

\* re.match(r"Class\s+extends\s+(.+)", stripped, re.IGNORECASE)
MatchClassExtends(stripped) ==
    IF /\ Keyword(stripped, "class")
       /\ HasWs(Tail(stripped))
       /\ Keyword(LStrip(Tail(stripped)), "extends")
    THEN WsThenRest(Tail(LStrip(Tail(stripped))))
    ELSE [ok |-> FALSE, group |-> <<>>]

\* mutant: r"property\s*(.+)", whitespace after the keyword not required
MatchPropertyLoose(stripped) ==
    IF Keyword(stripped, "property") /\ Tail(stripped) # <<>>
    THEN [ok |-> TRUE,
          group |-> IF LStrip(Tail(stripped)) # <<>> THEN LStrip(Tail(stripped))
                    ELSE <<stripped[Len(stripped)]>>]
    ELSE [ok |-> FALSE, group |-> <<>>]

\* re.match(r"property\s+(.+)", stripped, re.IGNORECASE)
MatchProperty(stripped) ==
    IF Keyword(stripped, "property") THEN WsThenRest(Tail(stripped))
    ELSE [ok |-> FALSE, group |-> <<>>]

\* \w[\w.]* at the head of l: the longest run of word and dot chunks
RECURSIVE NameRun(_)
NameRun(l) ==
    IF l # <<>> /\ Head(l) \in WordChunks \cup {DotChunk}
    THEN <<Head(l)>> \o NameRun(Tail(l)) ELSE <<>>

\* re.match(r"(exposed\s+)?(shared\s+)?Function\s+(\w[\w.]*)", stripped,
\* re.IGNORECASE): group 1, then group 2, then the keyword; no other way of
\* matching exists, since an unmatched optional group leaves the keyword
\* facing "exposed" or "shared"
MatchFunction(stripped) ==
    LET g1 == Keyword(stripped, "exposed") /\ HasWs(Tail(stripped))
        s1 == IF g1 THEN LStrip(Tail(stripped)) ELSE stripped
        g2 == Keyword(s1, "shared") /\ HasWs(Tail(s1))
        s2 == IF g2 THEN LStrip(Tail(s1)) ELSE s1
        n  == IF s2 = <<>> THEN <<>> ELSE LStrip(Tail(s2))
    IN  IF /\ Keyword(s2, "function")
           /\ HasWs(Tail(s2))
           /\ n # <<>> /\ Head(n) \in WordChunks
        THEN [ok |-> TRUE, g1 |-> g1, g2 |-> g2, name |-> NameRun(n)]
        ELSE [ok |-> FALSE, g1 |-> FALSE, g2 |-> FALSE, name |-> <<>>]

\* Optional str: None, or a text
None == [none |-> TRUE, value |-> <<>>]
Some(v) == [none |-> FALSE, value |-> v]

\* mutant: an extends already found is kept (first occurrence wins)
KeepFirstExtends(extends, group) == IF extends.none THEN Some(Strip(group)) ELSE extends

\* extends = m.group(1).strip()
SetExtends(extends, group) == Some(Strip(group))

\* f"{prefix}{m.group(3)}"
FunctionEntry(m) ==
    (IF m.g1 THEN <<"exposed", " ">> ELSE <<>>)
    \o (IF m.g2 THEN <<"shared", " ">> ELSE <<>>)
    \o m.name

\* the body of the for loop: the three tests are made one after the other
\* on every line
LineStep(acc, line) ==
    LET stripped == Strip(line)
        c == MatchClassExtends(stripped)
        q == MatchProperty(stripped)
        f == MatchFunction(stripped)
    IN  [extends |-> IF c.ok THEN SetExtends(acc.extends, c.group) ELSE acc.extends,
         props |-> IF q.ok THEN Append(acc.props, Strip(q.group)) ELSE acc.props,
         funcs |-> IF f.ok THEN Append(acc.funcs, FunctionEntry(f)) ELSE acc.funcs]

RECURSIVE ForLines(_, _)
ForLines(ls, acc) ==
    IF ls = <<>> THEN acc ELSE ForLines(Tail(ls), LineStep(acc, Head(ls)))

analyze_class(file) ==
    LET content == ReadText(file)
        ls == SplitLines(content.text)
        acc == ForLines(ls, [extends |-> None, props |-> <<>>, funcs |-> <<>>])
    IN  IF ~content.ok
        THEN [name |-> file.stem, lines |-> 0, properties |-> <<>>,
              functions |-> <<>>, extends |-> None]
        ELSE [name |-> file.stem, lines |-> Len(ls), properties |-> acc.props,
              functions |-> acc.funcs, extends |-> acc.extends]

analyze_method(file) ==
    LET content == ReadText(file)
    IN  IF ~content.ok THEN [name |-> file.stem, lines |-> 0]
        ELSE [name |-> file.stem, lines |-> Len(SplitLines(content.text))]


(***************************************************************************)
(* project_info.py: main, the two scan loops.                              *)
(* A file is [stem, suffix, readable, bytes]; readable = FALSE is a file   *)
(* whose read raises (permission denied, I/O error).                       *)
(***************************************************************************)
\* the characters of file names, in code point order
CharsInOrder == <<" ", ".", "4", "A", "B", "d", "m", "t", "x">>
CharRank(c) == CHOOSE i \in 1..Len(CharsInOrder) : CharsInOrder[i] = c

\* str < str: the first differing character decides, a proper prefix is less
RECURSIVE StrLess(_, _)
StrLess(a, b) ==
    IF b = <<>> THEN FALSE
    ELSE IF a = <<>> THEN TRUE
    ELSE IF Head(a) = Head(b) THEN StrLess(Tail(a), Tail(b))
    ELSE CharRank(Head(a)) < CharRank(Head(b))

SuffixChars(suffix) ==
    IF suffix = ".4dm" THEN <<".", "4", "d", "m">> ELSE <<".", "t", "x", "t">>

\* Path.name: the stem followed by the suffix
FileName(f) == f.stem \o SuffixChars(f.suffix)

\* sorted(paths): the entries of one folder compare by their file names
RECURSIVE SortedByPath(_)
SortedByPath(S) ==
    IF S = {} THEN <<>>
    ELSE LET f == CHOOSE f \in S :
                      \A g \in S : g = f \/ StrLess(FileName(f), FileName(g))
         IN  <<f>> \o SortedByPath(S \ {f})

\* sorted(folder.glob("*.4dm")): the .4dm entries, in path order
SortedGlob(folder) == SortedByPath({f \in folder : f.suffix = ".4dm"})

RootIdle ==
    /\ dirs = {<<>>} /\ files = {} /\ phase = "idle" /\ tool = "project_info"
    /\ start = <<>> /\ located = Found(<<>>) /\ exitCode = -1 /\ touched = {}
    /\ cmds = <<>> /\ prompting = FALSE
    /\ DepIdle
    /\ ExtractorNew
    /\ PublishIdle

\* for f in sorted(methods_dir.glob("*.4dm")): the glob is listed and sorted
ListMethods ==
    /\ pc = "start"
    /\ todo' = SortedGlob(methodsDir)
    /\ pc' = "methods"
    /\ UNCHANGED <<output, methodsDir, classesDir, methods, classes>>
    /\ UNCHANGED <<rootVars, depVars, walkVars, extractVars, publishVars>>

\* methods.append(analyze_method(f))
ScanMethod ==
    /\ pc = "methods" /\ todo # <<>>
    /\ methods' = Append(methods, analyze_method(Head(todo)))
    /\ todo' = Tail(todo)
    /\ UNCHANGED <<output, methodsDir, classesDir, pc, classes>>
    /\ UNCHANGED <<rootVars, depVars, walkVars, extractVars, publishVars>>

\* for f in sorted(classes_dir.glob("*.4dm")): the glob is listed and sorted
ListClasses ==
    /\ pc = "methods" /\ todo = <<>>
    /\ todo' = SortedGlob(classesDir)
    /\ pc' = "classes"
    /\ UNCHANGED <<output, methodsDir, classesDir, methods, classes>>
    /\ UNCHANGED <<rootVars, depVars, walkVars, extractVars, publishVars>>

\* classes.append(analyze_class(f))
ScanClass ==
    /\ pc = "classes" /\ todo # <<>>
    /\ classes' = Append(classes, analyze_class(Head(todo)))
    /\ todo' = Tail(todo)
    /\ UNCHANGED <<output, methodsDir, classesDir, pc, methods>>
    /\ UNCHANGED <<rootVars, depVars, walkVars, extractVars, publishVars>>

(***************************************************************************)
(* project_info.py: the rest of the walk (database methods, forms,         *)
(* dependencies, settings).  A JSON file is what json.loads makes of it:   *)
(* a failure, or a value; an object is the sequence of its members as      *)
(* written, of which a dict keeps the last per key.  A folder is listed in *)
(* the order the filesystem returns its entries.                           *)
(***************************************************************************)
\* json.loads(path.read_text()) raises
LoadsRaises(file) == ~file.readable \/ file.data.t = "bad"

\* data.get(key, default) on a dict: the last member written under the key
RECURSIVE DictGet(_, _, _)
DictGet(members, key, default) ==
    IF members = <<>> THEN default
    ELSE LET last == members[Len(members)]
         IN  IF last.k = key THEN last.v
             ELSE DictGet(SubSeq(members, 1, Len(members) - 1), key, default)

\* x.keys() of a dict: one key per name written
DictKeys(v) == {v.elems[i] : i \in 1..Len(v.elems)}

\* mutant: the keys of a mapping are not counted
PagesOfArrayOnly(pages) == IF pages.t = "array" THEN Len(pages.elems) ELSE 0

\* len(pages) if isinstance(pages, list) else len(pages.keys()) if
\* isinstance(pages, dict) else 0
PagesOf(pages) ==
    IF pages.t = "array" THEN Len(pages.elems)
    ELSE IF pages.t = "object" THEN Cardinality(DictKeys(pages))
    ELSE 0

\* a key of info that is left out, or set
NoPages == [none |-> TRUE, value |-> 0]
Pages(n) == [none |-> FALSE, value |-> n]

\* [f.stem for f in listing if f matches *.4dm], in the listing's order
RECURSIVE StemsOf4dm(_, _)
StemsOf4dm(listing, files_only) ==
    IF listing = <<>> THEN <<>>
    ELSE LET f == Head(listing)
         IN  (IF f.suffix = ".4dm" /\ (files_only => f.is_file) THEN <<f.stem>> ELSE <<>>)
             \o StemsOf4dm(Tail(listing), files_only)

\* count_files(directory, ".4dm"): the rglob is not sorted
count_files(directory) ==
    IF ~directory.exists THEN <<>> ELSE StemsOf4dm(directory.listing, TRUE)

\* mutant: a form file that fails to parse reports no pages at all
FormPagesZero(form_file) ==
    IF ~form_file.exists THEN NoPages
    ELSE IF LoadsRaises(form_file) \/ form_file.data.t # "object" THEN Pages(0)
    ELSE Pages(PagesOf(DictGet(form_file.data.members, "pages", JArray(<<>>))))

\* the try block of analyze_forms: json.loads, data.get, the page count;
\* every exception (the parse, the read, .get on a value that is not a
\* dict) is passed over and leaves info without pages
FormPages(form_file) ==
    IF ~form_file.exists THEN NoPages
    ELSE IF LoadsRaises(form_file) \/ form_file.data.t # "object" THEN NoPages
    ELSE Pages(PagesOf(DictGet(form_file.data.members, "pages", JArray(<<>>))))

\* the body of the loop of analyze_forms for one directory
FormInfo(form_dir) ==
    LET ms == StemsOf4dm(form_dir.listing, FALSE)
    IN  [name |-> form_dir.name,
         has_form_file |-> form_dir.form_file.exists,
         pages |-> FormPages(form_dir.form_file),
         methods |-> IF ms = <<>> THEN None ELSE Some(ms)]

\* sorted(forms_dir.iterdir()): the entries, in path order
RECURSIVE SortedByName(_)
SortedByName(S) ==
    IF S = {} THEN <<>>
    ELSE LET first == CHOOSE f \in S : \A g \in S \ {f} : StrLess(f.name, g.name)
         IN  <<first>> \o SortedByName(S \ {first})

RECURSIVE FormsLoop(_)
FormsLoop(todoForms) ==
    IF todoForms = <<>> THEN <<>>
    ELSE LET form_dir == Head(todoForms)
         IN  IF ~form_dir.is_dir THEN FormsLoop(Tail(todoForms))
             ELSE <<FormInfo(form_dir)>> \o FormsLoop(Tail(todoForms))

analyze_forms(forms_dir) ==
    IF ~forms_dir.exists THEN <<>> ELSE FormsLoop(SortedByName(forms_dir.entries))

\* analyze_dependencies: the dependencies key of dependencies.json
analyze_dependencies(dep_file) ==
    IF ~dep_file.exists
    THEN [file_exists |-> FALSE, error |-> FALSE, dependencies |-> JObject(<<>>)]
    ELSE IF LoadsRaises(dep_file) \/ dep_file.data.t # "object"
    THEN [file_exists |-> TRUE, error |-> TRUE, dependencies |-> JObject(<<>>)]
    ELSE [file_exists |-> TRUE, error |-> FALSE,
          dependencies |-> DictGet(dep_file.data.members, "dependencies", JObject(<<>>))]

\* analyze_settings: the first *.4DProject entry of Project, in the order
\* the folder is listed, and whether settings.4DSettings exists
analyze_settings(project_files, has_settings) ==
    LET f == Head(project_files)
    IN  IF LoadsRaises(f.file) \/ f.file.data.t # "object"
        THEN [parsed |-> FALSE, project_file |-> "",
              compatibility_version |-> JScalar, tokenized_text |-> JScalar,
              has_settings |-> has_settings]
        ELSE [parsed |-> TRUE, project_file |-> f.name,
              compatibility_version |->
                  DictGet(f.file.data.members, "compatibilityVersion", JScalar),
              tokenized_text |-> DictGet(f.file.data.members, "tokenizedText", JScalar),
              has_settings |-> has_settings]

\* mutant: the names are listed last to first
NamesReversed(symbols) == [k \in 1..Len(symbols) |-> symbols[Len(symbols) + 1 - k].name]

\* [m["name"] for m in methods]
NamesOf(symbols) == [k \in 1..Len(symbols) |-> symbols[k].name]

\* sum(m.get("lines", 0) for m in symbols)
RECURSIVE SumLines(_)
SumLines(symbols) ==
    IF symbols = <<>> THEN 0 ELSE Head(symbols).lines + SumLines(Tail(symbols))

\* main, from "Database methods" to "Catalog": the rest of the walk
WalkRest ==
    /\ pc = "scanned"
    /\ db_methods' = count_files(sourcesDir.database_methods_dir)
    /\ forms' = analyze_forms(sourcesDir.forms_dir)
    /\ deps' = analyze_dependencies(sourcesDir.dep_file)
    /\ settings' = analyze_settings(sourcesDir.project_files, sourcesDir.has_settings)
    /\ has_catalog' = sourcesDir.has_catalog
    /\ pc' = "walked"
    /\ UNCHANGED <<output, methodsDir, classesDir, todo, methods, classes>>
    /\ UNCHANGED <<sourcesDir, report>>
    /\ UNCHANGED <<rootVars, depVars, extractVars, publishVars>>

\* report = {...}
BuildReport ==
    [project_root |-> located.root,
     settings |-> settings,
     summary |-> [methods_count |-> Len(methods),
                  classes_count |-> Len(classes),
                  forms_count |-> Len(forms),
                  database_methods |-> db_methods,
                  has_catalog |-> has_catalog,
                  total_code_lines |-> SumLines(methods) + SumLines(classes),
                  dependencies |-> deps],
     methods |-> methods,
     classes |-> classes,
     forms |-> forms]

\* mutant: the compact shape counts the forms again, keeping those with a
\* form file
CompactRecount(r) ==
    [fmt |-> "--compact", project_root |-> r.project_root, settings |-> r.settings,
     summary |-> [r.summary EXCEPT !.forms_count =
                      Cardinality({k \in 1..Len(r.forms) : r.forms[k].has_form_file})],
     methods |-> <<>>, classes |-> <<>>, forms |-> <<>>,
     method_names |-> NamesOf(r.methods), class_names |-> NamesOf(r.classes),
     form_names |-> NamesOf(r.forms)]

\* compact = {...}: three fields of report, and the names
Compact(r) ==
    [fmt |-> "--compact", project_root |-> r.project_root, settings |-> r.settings,
     summary |-> r.summary,
     methods |-> <<>>, classes |-> <<>>, forms |-> <<>>,
     method_names |-> NamesOf(r.methods), class_names |-> NamesOf(r.classes),
     form_names |-> NamesOf(r.forms)]

\* print(json.dumps(report, indent=2))
Full(r) ==
    [fmt |-> "--full", project_root |-> r.project_root, settings |-> r.settings,
     summary |-> r.summary,
     methods |-> r.methods, classes |-> r.classes, forms |-> r.forms,
     method_names |-> <<>>, class_names |-> <<>>, form_names |-> <<>>]

\* main, from "Summary" on: the report is assembled and printed in the
\* shape the command line asks for
Report(fmt) ==
    /\ pc = "walked"
    /\ report' = BuildReport
    /\ output' = IF fmt = "--compact" THEN Compact(BuildReport) ELSE Full(BuildReport)
    /\ pc' = "printed"
    /\ UNCHANGED <<methodsDir, classesDir, todo, methods, classes>>
    /\ UNCHANGED <<sourcesDir, db_methods, forms, deps, settings, has_catalog>>
    /\ UNCHANGED <<rootVars, depVars, extractVars, publishVars>>

\* the class loop is over: main goes on to assemble the report
EndScan ==
    /\ pc = "classes" /\ todo = <<>>
    /\ pc' = "scanned"
    /\ UNCHANGED <<output, methodsDir, classesDir, todo, methods, classes>>
    /\ UNCHANGED <<rootVars, depVars, walkVars, extractVars, publishVars>>

(***************************************************************************)
(* SpecClass: the class loop of main on a Classes folder that holds one    *)
(* class file, whose lines are drawn from ClassPool.                       *)
(***************************************************************************)
ClassPool ==
    { <<"Class", " ", "extends", " ", "Foo">>,
      <<"property", " ", "x">>,
      <<"Function", " ", "bar">>,
      <<"exposed", " ", "shared", " ", "Function", " ", "baz">>,
      <<"shared", " ", "exposed", " ", "Function", " ", "baz">>,
      <<"shared", " ", "Function", " ", "bar">>,
      <<"exposed", " ", "Function", " ", "bar">>,
      <<"\t", "CLASS", " ", " ", "EXTENDS", "\t", "Bar", " ">>,
      <<"property", "x">>,
      <<" ", "function", " ", "a", ".", "b", "(", BadBytes, ")">>,
      <<>> }

\* "\n".join(lines)
RECURSIVE JoinLines(_)
JoinLines(ls) ==
    IF ls = <<>> THEN <<>>
    ELSE IF Len(ls) = 1 THEN ls[1]
    ELSE ls[1] \o <<Newline>> \o JoinLines(Tail(ls))

ClassFile(readable, bytes) ==
    [stem |-> <<"A">>, suffix |-> ".4dm", readable |-> readable, bytes |-> bytes]

ClassInit ==
    /\ \E n \in 0..MaxLines : \E ls \in [1..n -> ClassPool],
                                 readable \in (IF n = 0 THEN BOOLEAN ELSE {TRUE}) :
           /\ classesDir = {ClassFile(readable, JoinLines(ls))}
           /\ todo = <<ClassFile(readable, JoinLines(ls))>>
    /\ methodsDir = {}
    /\ pc = "classes"
    /\ methods = <<>>
    /\ classes = <<>>
    /\ output = NoOutput
    /\ sourcesDir = BareSources
    /\ WalkIdle
    /\ RootIdle

ClassNext == ScanClass

SpecClass == ClassInit /\ [][ClassNext]_vars

(***************************************************************************)
(* SpecScan: both loops of main on a Methods and a Classes folder holding  *)
(* at most MaxFiles files together.                                        *)
(***************************************************************************)
ScanContents ==
    { <<>>,
      <<"property", " ", "x">>,
      <<"Class", " ", "extends", " ", "Foo", Newline, "property", " ", "x", Newline>>,
      <<BadBytes, Newline, "Function", " ", "bar">> }

ScanStems == {<<"A">>, <<"A", " ", "B">>, <<"B">>}

ScanFiles ==
    {[stem |-> n, suffix |-> ".4dm", readable |-> TRUE, bytes |-> b] :
        n \in ScanStems, b \in ScanContents}
    \cup {[stem |-> n, suffix |-> ".4dm", readable |-> FALSE,
           bytes |-> <<"property", " ", "x">>] : n \in ScanStems}
    \cup {[stem |-> n, suffix |-> ".txt", readable |-> TRUE,
           bytes |-> <<"property", " ", "x">>] : n \in ScanStems}

\* the sets of at most n files
RECURSIVE FileSetsUpTo(_)
FileSetsUpTo(n) ==
    IF n = 0 THEN {{}}
    ELSE FileSetsUpTo(n - 1) \cup {S \cup {f} : S \in FileSetsUpTo(n - 1), f \in ScanFiles}

\* a folder holds one entry per name
Folders ==
    {S \in FileSetsUpTo(MaxFiles) :
        \A f, g \in S : (f.stem = g.stem /\ f.suffix = g.suffix) => f = g}

ScanInit ==
    /\ methodsDir \in Folders
    /\ classesDir \in Folders
    /\ Cardinality(methodsDir) + Cardinality(classesDir) <= MaxFiles
    /\ pc = "start"
    /\ todo = <<>>
    /\ methods = <<>>
    /\ classes = <<>>
    /\ output = NoOutput
    /\ sourcesDir = BareSources
    /\ WalkIdle
    /\ RootIdle

ScanNext ==
    \/ ListMethods \/ ScanMethod \/ ListClasses \/ ScanClass \/ EndScan
    \/ WalkRest
    \/ \E fmt \in {"--compact", "--full"} : Report(fmt)

SpecScan == ScanInit /\ [][ScanNext]_vars

(***************************************************************************)
(* SpecForms: the whole of main on a Project/Sources that holds a Forms    *)
(* folder of at most MaxForms entries, or a little of everything.          *)
(***************************************************************************)
PageKeys == <<"p", "q", "r", "s", "t">>

\* the pages a form file can carry: arrays and mappings of up to MaxPages
\* elements, a mapping that writes a key twice, a scalar
PagesPool ==
    {JArray(SubSeq(PageKeys, 1, n)) : n \in 0..MaxPages}
    \cup {JObject(SubSeq(PageKeys, 1, n)) : n \in 0..MaxPages}
    \cup {JObject(<<"p", "p">>), JObject(<<"p", "q", "p">>), JScalar}

Member(key, value) == [k |-> key, v |-> value]

FormFilePool ==
    {NoFile, UnreadableFile, TextFile(JBad), TextFile(JTopOther("array")),
     TextFile(JTopOther("scalar")), TextFile(JTopObject(<<>>)),
     TextFile(JTopObject(<<Member("pages", JArray(<<"p">>)),
                           Member("pages", JObject(<<"p", "q">>))>>))}
    \cup {TextFile(JTopObject(<<Member("title", JScalar), Member("pages", v)>>)) :
             v \in PagesPool}

Entry(stem, suffix, is_file) == [stem |-> stem, suffix |-> suffix, is_file |-> is_file]

\* the entries of a folder, in the order the filesystem returns them
Listings ==
    { <<>>,
      <<Entry(<<"A">>, ".4dm", TRUE), Entry(<<"B">>, ".4dm", TRUE)>>,
      <<Entry(<<"B">>, ".4dm", TRUE), Entry(<<"A">>, ".txt", TRUE),
        Entry(<<"A">>, ".4dm", TRUE)>>,
      <<Entry(<<"B">>, ".4dm", FALSE), Entry(<<"A">>, ".4dm", TRUE)>> }

FormDir(name, form_file, listing) ==
    [name |-> name, is_dir |-> TRUE, form_file |-> form_file, listing |-> listing]

\* what Forms can hold under one name: a form folder, or a regular file
FormEntries(name) ==
    {FormDir(name, f, <<>>) : f \in FormFilePool}
    \cup {FormDir(name, f, l) :
             f \in {NoFile, TextFile(JBad),
                    TextFile(JTopObject(<<Member("pages", JArray(<<"p", "q">>))>>))},
             l \in Listings}
    \cup {[name |-> name, is_dir |-> FALSE, form_file |-> NoFile, listing |-> <<>>]}

RECURSIVE FormSetsUpTo(_)
FormSetsUpTo(n) ==
    IF n = 0 THEN {{}}
    ELSE FormSetsUpTo(n - 1)
         \cup {S \cup {e} : S \in FormSetsUpTo(n - 1),
                            e \in UNION {FormEntries(name) : name \in ScanStems}}

FormFolders ==
    {[exists |-> TRUE, entries |-> S] :
        S \in {T \in FormSetsUpTo(MaxForms) : \A e, g \in T : e.name = g.name => e = g}}

\* a small Methods or Classes folder
WalkFolders ==
    {{},
     {[stem |-> <<"A">>, suffix |-> ".4dm", readable |-> TRUE,
       bytes |-> <<"property", " ", "x">>]},
     {[stem |-> <<"A">>, suffix |-> ".4dm", readable |-> TRUE,
       bytes |-> <<"Function", " ", "bar", Newline, "property", " ", "x">>],
      [stem |-> <<"A", " ", "B">>, suffix |-> ".4dm", readable |-> FALSE,
       bytes |-> <<>>]}}

SmallFormFolders ==
    {NoFolder,
     [exists |-> TRUE,
      entries |-> {FormDir(<<"B">>, NoFile, <<>>),
                   FormDir(<<"A">>, TextFile(JTopObject(<<Member("pages", JObject(<<"p">>))>>)),
                           <<Entry(<<"B">>, ".4dm", TRUE)>>)}]}

DepFilePool ==
    {NoFile, TextFile(JBad), TextFile(JTopObject(<<>>)),
     TextFile(JTopObject(<<Member("dependencies", JObject(<<"p">>))>>))}

ProjectFilePool ==
    {<<ProjectFile("P.4DProject", JTopObject(<<>>))>>,
     <<ProjectFile("Q.4DProject", JBad), ProjectFile("P.4DProject", JTopObject(<<>>))>>,
     <<ProjectFile("P.4DProject", JTopObject(<<Member("tokenizedText", JScalar)>>))>>}

FormsInit ==
    /\ \/ /\ sourcesDir \in {[BareSources EXCEPT !.forms_dir = F] : F \in FormFolders}
          /\ methodsDir = {} /\ classesDir = {}
       \/ /\ sourcesDir \in
                 [forms_dir : SmallFormFolders,
                  database_methods_dir :
                      {NoListing} \cup {[exists |-> TRUE, listing |-> l] : l \in Listings},
                  dep_file : DepFilePool, project_files : ProjectFilePool,
                  has_settings : BOOLEAN, has_catalog : BOOLEAN]
          /\ methodsDir \in WalkFolders /\ classesDir \in WalkFolders
    /\ pc = "start"
    /\ todo = <<>>
    /\ methods = <<>>
    /\ classes = <<>>
    /\ output = NoOutput
    /\ WalkIdle
    /\ RootIdle

SpecForms == FormsInit /\ [][ScanNext]_vars


(***************************************************************************)
(* Properties of the class extractor (checked under SpecClass).  The       *)
(* declarations of a line are stated here from the shape of the line       *)
(* (whitespace separated fields), independently of the matchers above.     *)
(***************************************************************************)
\* the index of the first chunk at or after i that is not whitespace
\* (Len(l) + 1 when there is none)
SkipWsFrom(l, i) ==
    CHOOSE j \in i..(Len(l) + 1) :
        /\ \A k \in i..(j - 1) : l[k] \in WsChunks
        /\ j = Len(l) + 1 \/ l[j] \notin WsChunks

\* the whitespace separated fields of a stripped line
RECURSIVE Fields(_)
Fields(l) ==
    IF l = <<>> THEN <<>>
    ELSE IF Head(l) \in WsChunks THEN Fields(Tail(l))
    ELSE LET e == CHOOSE j \in 1..Len(l) :
                      /\ \A k \in 1..j : l[k] \notin WsChunks
                      /\ j = Len(l) \/ l[j + 1] \in WsChunks
         IN  <<SubSeq(l, 1, e)>> \o Fields(SubSeq(l, e + 1, Len(l)))

\* "Class extends <rest>": the rest, or <<>> when the line is none
ExtendsRest(l) ==
    LET i == SkipWsFrom(l, 2)
        j == SkipWsFrom(l, i + 1)
    IN  IF /\ Len(l) >= 1 /\ Lower(l[1]) = "class"
           /\ 2 < i /\ i <= Len(l) /\ Lower(l[i]) = "extends"
           /\ i + 1 < j /\ j <= Len(l)
        THEN SubSeq(l, j, Len(l)) ELSE <<>>

\* "property <rest>": the rest, or <<>> when the line is none
PropertyRest(l) ==
    LET i == SkipWsFrom(l, 2)
    IN  IF Len(l) >= 1 /\ Lower(l[1]) = "property" /\ 2 < i /\ i <= Len(l)
        THEN SubSeq(l, i, Len(l)) ELSE <<>>

\* the orders in which the modifiers may precede Function
ModifiersInOrder == {<<>>, <<"exposed">>, <<"shared">>, <<"exposed", "shared">>}
ModifiersAnyOrder == ModifiersInOrder \cup {<<"shared", "exposed">>}

\* "<modifiers> Function <name>" with the modifiers in one of the given
\* orders: the entry "exposed shared name" listing its modifier set, or
\* <<>> when the line is none
FunctionDecl(l, orders) ==
    LET f == Fields(l)
        Is(mods) ==
            /\ Len(f) >= Len(mods) + 2
            /\ \A k \in 1..Len(mods) : f[k] = <<mods[k]>>
            /\ Len(f[Len(mods) + 1]) = 1 /\ Lower(f[Len(mods) + 1][1]) = "function"
            /\ f[Len(mods) + 2][1] \in WordChunks
    IN  IF \E mods \in orders : Is(mods)
        THEN LET mods == CHOOSE mods \in orders : Is(mods)
                 has(m) == \E k \in 1..Len(mods) : mods[k] = m
             IN  (IF has("exposed") THEN <<"exposed", " ">> ELSE <<>>)
                 \o (IF has("shared") THEN <<"shared", " ">> ELSE <<>>)
                 \o NameRun(f[Len(mods) + 2])
        ELSE <<>>

\* the k-th smallest element of a set of numbers
Kth(S, k) == CHOOSE i \in S : Cardinality({j \in S : j <= i}) = k

\* the class file of SpecClass, its lines, and what analyze_class returned
TheClassFile == CHOOSE f \in classesDir : TRUE
ClassLines == SplitLines(Decode(TheClassFile.bytes))
Stripped(i) == Strip(ClassLines[i])
Analysed == classes # <<>> /\ TheClassFile.readable

PropertyLines == {i \in 1..Len(ClassLines) : PropertyRest(Stripped(i)) # <<>>}
ExtendsLines == {i \in 1..Len(ClassLines) : ExtendsRest(Stripped(i)) # <<>>}
FunctionLines(orders) ==
    {i \in 1..Len(ClassLines) : FunctionDecl(Stripped(i), orders) # <<>>}

ExpectedProperties ==
    [k \in 1..Cardinality(PropertyLines) |-> PropertyRest(Stripped(Kth(PropertyLines, k)))]
ExpectedFunctions(orders) ==
    [k \in 1..Cardinality(FunctionLines(orders)) |->
        FunctionDecl(Stripped(Kth(FunctionLines(orders), k)), orders)]

ExampleFile ==
    JoinLines(<< <<"Class", " ", "extends", " ", "Foo">>, <<"property", " ", "x">>,
                 <<"Function", " ", "bar">>,
                 <<"exposed", " ", "shared", " ", "Function", " ", "baz">> >>)

\* C6: analyze_class returns as properties exactly the trimmed remainders
\* of the property lines, in file order and with duplicates kept, and as
\* functions exactly the function declarations (modifiers in either order)
\* in file order with their modifiers, duplicates kept; the four example
\* lines yield extends = "Foo", properties = ["x"],
\* functions = [bar, exposed shared baz].
C6_DeclarationsInFileOrder ==
    Analysed =>
        /\ classes[1].properties = ExpectedProperties
        /\ classes[1].functions = ExpectedFunctions(ModifiersAnyOrder)
        /\ TheClassFile.bytes = ExampleFile =>
               /\ classes[1].extends = Some(<<"Foo">>)
               /\ classes[1].properties = << <<"x">> >>
               /\ classes[1].functions =
                      << <<"bar">>, <<"exposed", " ", "shared", " ", "baz">> >>

\* what the extractor does return: the property lines, and the function
\* lines whose modifiers come as "exposed" then "shared", in file order
\* with duplicates kept
DeclarationsInPatternOrder ==
    Analysed =>
        /\ classes[1].properties = ExpectedProperties
        /\ classes[1].functions = ExpectedFunctions(ModifiersInOrder)
        /\ TheClassFile.bytes = ExampleFile =>
               /\ classes[1].extends = Some(<<"Foo">>)
               /\ classes[1].properties = << <<"x">> >>
               /\ classes[1].functions =
                      << <<"bar">>, <<"exposed", " ", "shared", " ", "baz">> >>

\* C7: every function declaration, its modifiers exposed and shared in
\* either order, puts into functions an entry of its name carrying its
\* modifier set.
C7_ModifiersInEitherOrder ==
    Analysed =>
        \A i \in FunctionLines(ModifiersAnyOrder) :
            \E k \in 1..Len(classes[1].functions) :
                classes[1].functions[k] = FunctionDecl(Stripped(i), ModifiersAnyOrder)

\* C8: extends is the trimmed rest of the last "Class extends" line of the
\* file, and None when the file has no such line.
C8_LastExtendsWins ==
    Analysed =>
        classes[1].extends =
            IF ExtendsLines = {} THEN None
            ELSE Some(ExtendsRest(Stripped(Kth(ExtendsLines, Cardinality(ExtendsLines)))))

\* C8 witness: a file with two "Class extends" lines naming different
\* classes was analysed, and extends is the second one's.
C8_Witness ==
    /\ Analysed
    /\ \E i, j \in ExtendsLines :
           /\ i < j /\ j = Kth(ExtendsLines, Cardinality(ExtendsLines))
           /\ ExtendsRest(Stripped(i)) # ExtendsRest(Stripped(j))
           /\ classes[1].extends = Some(ExtendsRest(Stripped(j)))

\* the lines that are none of the three declarations
IsUnrecognised(l) ==
    /\ ExtendsRest(l) = <<>>
    /\ PropertyRest(l) = <<>>
    /\ FunctionDecl(l, ModifiersAnyOrder) = <<>>

RecognisedLines ==
    LET R == {i \in 1..Len(ClassLines) : ~IsUnrecognised(Stripped(i))}
    IN  [k \in 1..Cardinality(R) |-> ClassLines[Kth(R, k)]]

\* C9: the lines matching none of the three patterns change nothing (the
\* result is the one the file gives with these lines taken out), and a file
\* with no recognised line yields extends = None, properties = [],
\* functions = []; every readable file yields a symbol.
C9_UnrecognisedLinesIgnored ==
    Analysed =>
        LET kept == ForLines(RecognisedLines,
                             [extends |-> None, props |-> <<>>, funcs |-> <<>>])
        IN  /\ classes[1].properties = kept.props
            /\ classes[1].functions = kept.funcs
            /\ classes[1].extends = kept.extends
            /\ RecognisedLines = <<>> =>
                   /\ classes[1].extends = None
                   /\ classes[1].properties = <<>>
                   /\ classes[1].functions = <<>>

\* C9 witness: a file of several lines, none recognised and not all empty,
\* was analysed into the empty symbol.
C9_Witness ==
    /\ Analysed
    /\ Len(ClassLines) >= 2
    /\ RecognisedLines = <<>>
    /\ \E i \in 1..Len(ClassLines) : Stripped(i) # <<>>
    /\ classes[1].extends = None /\ classes[1].properties = <<>>
    /\ classes[1].functions = <<>>

(***************************************************************************)
(* Properties of the two scan loops (checked under SpecScan).              *)
(***************************************************************************)
SourceFiles(folder) == {f \in folder : f.suffix = ".4dm"}
Undecodable(f) == \E i \in 1..Len(f.bytes) : f.bytes[i] = BadBytes

\* the number of lines of a text: its line ends, and a last line without one
ExpectedLineCount(bytes) ==
    Cardinality({i \in 1..Len(bytes) : bytes[i] = Newline})
    + (IF bytes # <<>> /\ bytes[Len(bytes)] # Newline THEN 1 ELSE 0)

\* the symbols are those of the folder's source files, one each, by file name
OnePerSourceFile(symbols, folder) ==
    /\ Len(symbols) = Cardinality(SourceFiles(folder))
    /\ \A f \in SourceFiles(folder) : \E k \in 1..Len(symbols) : symbols[k].name = f.stem
    /\ \A k, j \in 1..Len(symbols) :
           k < j => StrLess(symbols[k].name \o SuffixChars(".4dm"),
                            symbols[j].name \o SuffixChars(".4dm"))

SymbolOf(symbols, f) == symbols[CHOOSE k \in 1..Len(symbols) : symbols[k].name = f.stem]

IsEmptyClass(c) ==
    c.lines = 0 /\ c.properties = <<>> /\ c.functions = <<>> /\ c.extends = None

\* C10 as stated: a method or class file whose contents cannot be decoded
\* yields a symbol with line count zero (a class: no properties, functions
\* or extends), and the scan goes on over the remaining files.
C10_UndecodableYieldsZeroLines ==
    pc = "scanned" =>
        /\ OnePerSourceFile(methods, methodsDir)
        /\ OnePerSourceFile(classes, classesDir)
        /\ \A f \in SourceFiles(methodsDir) :
               Undecodable(f) => SymbolOf(methods, f).lines = 0
        /\ \A f \in SourceFiles(classesDir) :
               Undecodable(f) => IsEmptyClass(SymbolOf(classes, f))

\* C10 amended: a file whose read raises yields a symbol with line count
\* zero (a class: no properties, functions or extends); a file that is read
\* keeps its line count, undecodable bytes included (they are replaced, not
\* rejected); either way the scan goes on and yields one symbol per source
\* file, in file-name order.
C10_ReadFailureYieldsZeroLines ==
    pc = "scanned" =>
        /\ OnePerSourceFile(methods, methodsDir)
        /\ OnePerSourceFile(classes, classesDir)
        /\ \A f \in SourceFiles(methodsDir) :
               SymbolOf(methods, f).lines =
                   IF f.readable THEN ExpectedLineCount(f.bytes) ELSE 0
        /\ \A f \in SourceFiles(classesDir) :
               IF f.readable
               THEN SymbolOf(classes, f).lines = ExpectedLineCount(f.bytes)
               ELSE IsEmptyClass(SymbolOf(classes, f))

\* C10 witness: the scan is over a Classes folder whose first file could
\* not be read and whose second holds undecodable bytes: a zero-line symbol
\* for the first, the two lines and the function of the second.
C10_Witness ==
    /\ pc = "scanned"
    /\ \E f, g \in SourceFiles(classesDir) :
           /\ ~f.readable /\ g.readable /\ Undecodable(g)
           /\ StrLess(FileName(f), FileName(g))
    /\ Len(classes) = 2
    /\ IsEmptyClass(classes[1])
    /\ classes[2].lines = 2 /\ classes[2].functions = << <<"bar">> >>

\* sorted(names): insertion into place, by str order
RECURSIVE InsertSorted(_, _)
InsertSorted(x, sorted) ==
    IF sorted = <<>> THEN <<x>>
    ELSE IF StrLess(x, Head(sorted)) THEN <<x>> \o sorted
    ELSE <<Head(sorted)>> \o InsertSorted(x, Tail(sorted))

RECURSIVE SortedNames(_)
SortedNames(names) ==
    IF names = <<>> THEN <<>>
    ELSE InsertSorted(Head(names), SortedNames(Tail(names)))

IsProperPrefix(a, b) == Len(a) < Len(b) /\ SubSeq(b, 1, Len(a)) = a

CompactPrinted == pc = "printed" /\ output.fmt = "--compact"

\* C20 as stated: the compact report's method_names is the sorted list of
\* the name fields of the full report's methods list.
C20_MethodNamesSorted ==
    CompactPrinted =>
        output.method_names = SortedNames([k \in 1..Len(methods) |-> methods[k].name])

\* C20 amended: method_names lists the name fields of the methods list in
\* that list's own order, which is the order of the sorted file paths
\* (name + ".4dm"); it is the sorted list of the names whenever no name
\* is a proper prefix of another.
C20_MethodNamesInListOrder ==
    CompactPrinted =>
        /\ Len(output.method_names) = Len(methods)
        /\ \A k \in 1..Len(methods) : output.method_names[k] = methods[k].name
        /\ \A k, j \in 1..Len(methods) :
               k < j => StrLess(output.method_names[k] \o SuffixChars(".4dm"),
                                output.method_names[j] \o SuffixChars(".4dm"))
        /\ (\A k, j \in 1..Len(methods) : ~IsProperPrefix(methods[k].name, methods[j].name))
               => output.method_names
                      = SortedNames([k \in 1..Len(methods) |-> methods[k].name])

\* C20 witness: the compact report of a Methods folder holding "A B.4dm"
\* and "A.4dm" lists "A B" before "A".
C20_Witness ==
    /\ CompactPrinted
    /\ output.method_names = << <<"A", " ", "B">>, <<"A">> >>
    /\ methods[1].name = <<"A", " ", "B">> /\ methods[2].name = <<"A">>

(***************************************************************************)
(* Claims about the report and the rest of the walk (SpecForms).           *)
(***************************************************************************)
NameFields(symbols) == [k \in 1..Len(symbols) |-> symbols[k].name]

\* C21: the compact report is a projection of the full report of the same
\* walk: project_root, settings and summary are the full report's, and
\* method_names, class_names and form_names are the name fields of its
\* methods, classes and forms, in the same order and as long as the
\* corresponding summary counts.
C21_CompactIsProjection ==
    CompactPrinted =>
        /\ output.project_root = report.project_root
        /\ output.settings = report.settings
        /\ output.summary = report.summary
        /\ output.method_names = NameFields(report.methods)
        /\ output.class_names = NameFields(report.classes)
        /\ output.form_names = NameFields(report.forms)
        /\ Len(output.method_names) = output.summary.methods_count
        /\ Len(output.class_names) = output.summary.classes_count
        /\ Len(output.form_names) = output.summary.forms_count
        /\ report = BuildReport

\* C21 witness: a compact report of two methods, a class and two forms, one
\* of them without a form file.
C21_Witness ==
    /\ CompactPrinted
    /\ Len(report.methods) = 2 /\ Len(report.classes) >= 1
    /\ output.form_names = << <<"A">>, <<"B">> >>
    /\ ~report.forms[2].has_form_file
    /\ output.summary.forms_count = 2

Walked == pc \in {"walked", "printed"}

\* names, each followed by the suffix, never go down in str order
InFileNameOrder(names, suffix) ==
    \A k, j \in 1..Len(names) :
        k < j => ~StrLess(names[j] \o suffix, names[k] \o suffix)

FormMethods(info) == IF info.methods.none THEN <<>> ELSE info.methods.value

\* C22 as stated: every list the walk produces is in lexicographic order by
\* file name, whatever the order in which the filesystem lists a folder:
\* methods, classes, the database-method names, forms, and each form's
\* method names.
C22_EveryListInFileNameOrder ==
    Walked =>
        /\ InFileNameOrder(NameFields(methods), SuffixChars(".4dm"))
        /\ InFileNameOrder(NameFields(classes), SuffixChars(".4dm"))
        /\ InFileNameOrder(db_methods, SuffixChars(".4dm"))
        /\ InFileNameOrder(NameFields(forms), <<>>)
        /\ \A k \in 1..Len(forms) :
               InFileNameOrder(FormMethods(forms[k]), SuffixChars(".4dm"))

\* the three lists main sorts are in file-name order
SortedListsInFileNameOrder ==
    Walked =>
        /\ InFileNameOrder(NameFields(methods), SuffixChars(".4dm"))
        /\ InFileNameOrder(NameFields(classes), SuffixChars(".4dm"))
        /\ InFileNameOrder(NameFields(forms), <<>>)

\* the entry of Forms a reported form comes from
FormDirOf(info) == CHOOSE d \in sourcesDir.forms_dir.entries : d.name = info.name

\* the form file parses as a JSON object
ParsesAsObject(file) == file.exists /\ file.readable /\ file.data.t = "object"

\* the places where the top-level object writes a pages member
PagesAt(file) == {i \in 1..Len(file.data.members) : file.data.members[i].k = "pages"}

\* the pages value json.loads keeps: the one written last
PagesValue(file) ==
    file.data.members[CHOOSE i \in PagesAt(file) : \A j \in PagesAt(file) : j <= i].v

DistinctCount(keys) == Cardinality({keys[i] : i \in 1..Len(keys)})

\* C23: for a form folder whose form.4DForm parses as a JSON object, the
\* reported pages is the number of elements of a top-level pages array and
\* the number of keys of a pages mapping: n elements or n keys report n.
C23_PagesCountsElementsOrKeys ==
    Walked =>
        \A k \in 1..Len(forms) :
            LET file == FormDirOf(forms[k]).form_file
            IN  (ParsesAsObject(file) /\ PagesAt(file) # {}) =>
                    LET p == PagesValue(file)
                    IN  /\ p.t = "array" =>
                               forms[k].pages = [none |-> FALSE, value |-> Len(p.elems)]
                        /\ p.t = "object" =>
                               forms[k].pages = [none |-> FALSE, value |-> DistinctCount(p.elems)]

\* C23 witness: two forms of one walk, one with a pages array of three
\* elements, one with a pages mapping of three keys, both reporting 3.
C23_Witness ==
    /\ Walked
    /\ Len(forms) = 2
    /\ LET p1 == PagesValue(FormDirOf(forms[1]).form_file)
           p2 == PagesValue(FormDirOf(forms[2]).form_file)
       IN  /\ ParsesAsObject(FormDirOf(forms[1]).form_file)
           /\ ParsesAsObject(FormDirOf(forms[2]).form_file)
           /\ PagesAt(FormDirOf(forms[1]).form_file) # {}
           /\ PagesAt(FormDirOf(forms[2]).form_file) # {}
           /\ p1.t = "array" /\ Len(p1.elems) = 3
           /\ p2.t = "object" /\ DistinctCount(p2.elems) = 3
    /\ forms[1].pages.value = 3 /\ forms[2].pages.value = 3
    /\ ~forms[1].pages.none /\ ~forms[2].pages.none

\* the form file is there but json.loads fails on it, it cannot be read,
\* or what it holds is not a JSON object
Unparseable(file) ==
    file.exists /\ (~file.readable \/ file.data.t \in {"bad", "array", "scalar"})

FormFolderEntries == {d \in sourcesDir.forms_dir.entries : d.is_dir}

\* the stems of the *.4dm entries of a listing, in its order
RECURSIVE MethodStems(_)
MethodStems(listing) ==
    IF listing = <<>> THEN <<>>
    ELSE (IF Head(listing).suffix = ".4dm" THEN <<Head(listing).stem>> ELSE <<>>)
         \o MethodStems(Tail(listing))

\* C24: a form.4DForm that exists but cannot be parsed, or is no JSON
\* object, is passed over: the form is reported with its name,
\* has_form_file true and its method names, without pages, and every other
\* form folder is reported too.
C24_ParseFailureSwallowed ==
    Walked =>
        /\ Len(forms) = Cardinality(FormFolderEntries)
        /\ \A d \in FormFolderEntries :
               \E k \in 1..Len(forms) :
                   /\ forms[k].name = d.name
                   /\ Unparseable(d.form_file) =>
                          /\ forms[k].has_form_file
                          /\ forms[k].pages.none
                          /\ FormMethods(forms[k]) = MethodStems(d.listing)
                          /\ forms[k].methods.none = (MethodStems(d.listing) = <<>>)

\* C24 witness: the first form folder holds an unparseable form file and
\* two methods; it is reported without pages, and the folder after it is
\* reported with its pages.
C24_Witness ==
    /\ Walked
    /\ Len(forms) = 2
    /\ Unparseable(FormDirOf(forms[1]).form_file)
    /\ forms[1].has_form_file /\ forms[1].pages.none
    /\ Len(FormMethods(forms[1])) = 2
    /\ ~forms[2].pages.none /\ forms[2].pages.value = 2

(***************************************************************************)
(* add_dependency.py: the dependency manifest and the environment file.    *)
(* A JSON value is [t, s, o]: a scalar (t = "scalar", s its text as a      *)
(* sequence of chunks) or an object (t = "obj", o its members in order,    *)
(* each [k, v]); Python dicts keep insertion order and json.dump writes    *)
(* it.  A JSON file on disk is [kind, json]: kind = "bad" when json.load   *)
(* cannot parse it.                                                        *)
(***************************************************************************)
Scalar(x) == [t |-> "scalar", s |-> x, o |-> <<>>]
Obj(members) == [t |-> "obj", s |-> <<>>, o |-> members]
Pair(key, value) == [k |-> key, v |-> value]
EmptyDict == Obj(<<>>)

BadJson == [kind |-> "bad", json |-> Scalar(<<>>)]
JsonFile(value) == [kind |-> "json", json |-> value]

\* key in d
Has(d, key) == \E i \in 1..Len(d.o) : d.o[i].k = key
\* d[key]
Get(d, key) == d.o[CHOOSE i \in 1..Len(d.o) : d.o[i].k = key].v
KeysOf(d) == [i \in 1..Len(d.o) |-> d.o[i].k]

\* mutant: the member is added at the end without looking for the key
SetItemAppend(d, key, value) == Obj(Append(d.o, Pair(key, value)))

\* d[key] = value: an existing key keeps its place, a new key goes last
SetItem(d, key, value) ==
    IF Has(d, key)
    THEN Obj([i \in 1..Len(d.o) |-> IF d.o[i].k = key THEN Pair(key, value) ELSE d.o[i]])
    ELSE Obj(Append(d.o, Pair(key, value)))

\* a str option or value is falsy when None or empty; None is written ""
IsSet(x) == x # ""

\* parse_github_url on "https://github.com/" + "/".join(segs): the pattern
\* accepts owner/repo and owner/repo/releases/tag/<tag>
parse_github_url(segs) ==
    IF Len(segs) = 2
    THEN [ok |-> TRUE, repo |-> segs, tag |-> ""]
    ELSE IF Len(segs) = 5 /\ segs[3] = "releases" /\ segs[4] = "tag"
    THEN [ok |-> TRUE, repo |-> SubSeq(segs, 1, 2), tag |-> segs[5]]
    ELSE [ok |-> FALSE, repo |-> <<>>, tag |-> ""]

is_github_url(repo) == repo.kind = "url"

\* is_github_repo: a URL; else not an existing path; else owner/repo shaped
\* (two parts, no leading "/" or ".").  A "path" repo is absolute; a "slug"
\* repo names nothing in the working directory.
is_github_repo(repo) ==
    IF is_github_url(repo) THEN TRUE
    ELSE IF repo.kind = "path" /\ Exists(repo.segs) THEN FALSE
    ELSE repo.kind = "slug" /\ Len(repo.segs) = 2

\* the text of a repo argument, in chunks
RECURSIVE JoinSlash(_)
JoinSlash(segs) ==
    IF segs = <<>> THEN <<>>
    ELSE IF Len(segs) = 1 THEN segs
    ELSE <<Head(segs), "/">> \o JoinSlash(Tail(segs))

\* str(path)
PathStr(path) == IF path = <<>> THEN <<"/">> ELSE <<"/">> \o JoinSlash(path)

RepoStr(repo) ==
    CASE repo.kind = "url" -> <<"https://github.com/">> \o JoinSlash(repo.segs)
      [] repo.kind = "path" -> PathStr(repo.segs)
      [] OTHER -> JoinSlash(repo.segs)

\* names with a suffix, as pathlib and str see them: name = stem + suffix,
\* the suffix being what follows the last dot
DottedNames ==
    { [name |-> "Comp", stem |-> "Comp", suffix |-> ""],
      [name |-> "Comp.v2", stem |-> "Comp", suffix |-> ".v2"],
      [name |-> "Comp.4dbase", stem |-> "Comp", suffix |-> ".4dbase"],
      [name |-> "Comp.v2.4dbase", stem |-> "Comp.v2", suffix |-> ".4dbase"] }

IsDotted(n) == \E d \in DottedNames : d.name = n
StemOf(n) == IF IsDotted(n) THEN (CHOOSE d \in DottedNames : d.name = n).stem ELSE n
SuffixOf(n) == IF IsDotted(n) THEN (CHOOSE d \in DottedNames : d.name = n).suffix ELSE ""

\* stem + suffix as one name
Concat(stem, suffix) ==
    IF suffix = "" THEN stem
    ELSE IF \E d \in DottedNames : d.stem = stem /\ d.suffix = suffix
    THEN (CHOOSE d \in DottedNames : d.stem = stem /\ d.suffix = suffix).name
    ELSE "?"

\* str.endswith(".4dbase") on a path's text
EndsWithDbase(path) == path # <<>> /\ SuffixOf(Name(path)) = ".4dbase"

\* f"{path}.4dbase": the text of the path with ".4dbase" after it
AppendDbase(path) == Parent(path) \o <<Concat(Name(path), ".4dbase")>>

\* path.with_suffix(".4dbase"): the last suffix is replaced
with_suffix_4dbase(path) == Parent(path) \o <<Concat(StemOf(Name(path)), ".4dbase")>>

\* get_dependency_name
get_dependency_name(repo, name_override) ==
    IF IsSet(name_override) THEN name_override
    ELSE IF is_github_url(repo) /\ parse_github_url(repo.segs).ok
    THEN parse_github_url(repo.segs).repo[2]
    ELSE IF is_github_repo(repo) THEN repo.segs[Len(repo.segs)]
    ELSE IF SuffixOf(Name(repo.segs)) = ".4dbase" THEN StemOf(Name(repo.segs))
    ELSE Name(repo.segs)

\* mutant: the version is written even when a tag is
BuildEntryBoth(github_repo, github_path, tag, url_tag, version) ==
    LET effective_tag == IF IsSet(tag) THEN tag ELSE url_tag
    IN  IF github_repo
        THEN Obj(<<Pair("github", Scalar(github_path))>>
                 \o (IF IsSet(effective_tag)
                     THEN <<Pair("tag", Scalar(<<effective_tag>>))>> ELSE <<>>)
                 \o (IF IsSet(version)
                     THEN <<Pair("version", Scalar(<<version>>))>> ELSE <<>>))
        ELSE EmptyDict

\* add_dependency: "Build dependency entry"
BuildEntry(github_repo, github_path, tag, url_tag, version) ==
    LET effective_tag == IF IsSet(tag) THEN tag ELSE url_tag
    IN  IF github_repo
        THEN Obj(<<Pair("github", Scalar(github_path))>>
                 \o (IF IsSet(effective_tag)
                     THEN <<Pair("tag", Scalar(<<effective_tag>>))>>
                     ELSE IF IsSet(version)
                     THEN <<Pair("version", Scalar(<<version>>))>> ELSE <<>>))
        ELSE EmptyDict

\* load_json_file: {} for a path that is no regular file; json.load raises
\* on a file that does not parse
load_json_file(path) ==
    IF IsFile(path)
    THEN IF path \in DOMAIN fileData /\ fileData[path].kind = "json"
         THEN [raised |-> FALSE, data |-> fileData[path].json]
         ELSE [raised |-> TRUE, data |-> EmptyDict]
    ELSE [raised |-> FALSE, data |-> EmptyDict]

\* save_json_file: mkdir(parents=True, exist_ok=True) then open(path, "w");
\* either raises when a regular file or a directory is in the way
CanSave(path) ==
    /\ ~IsDir(path)
    /\ \A q \in Chain(Parent(path)) : ~IsFile(q)

\* a version value that "not value" takes for missing
FalsyVersions == {<<"0">>, <<"null">>}

\* mutant: the version is defaulted whenever it is missing or falsy
DefaultVersionIfFalsy(d) ==
    IF ~Has(d, "version") \/ Get(d, "version").s \in FalsyVersions
    THEN SetItem(d, "version", Scalar(<<"2130">>)) ELSE d

\* mutant: a version already there is stepped at every write
BumpVersion(d) ==
    IF ~Has(d, "version") THEN SetItem(d, "version", Scalar(<<"2130">>))
    ELSE SetItem(d, "version", Scalar(Append(Get(d, "version").s, "+1")))

\* if "version" not in deps_data: deps_data["version"] = 2130
DefaultVersion(d) ==
    IF ~Has(d, "version") THEN SetItem(d, "version", Scalar(<<"2130">>)) ELSE d

\* add_dependency: "Update dependencies.json", between load and save.  A
\* loaded value that is no object, or whose "dependencies" is none, makes
\* the item assignment raise TypeError.
UpdateManifest(deps_data, dep_name, dep_entry) ==
    IF deps_data.t # "obj" THEN [raised |-> TRUE, data |-> deps_data]
    ELSE LET d1 == IF ~Has(deps_data, "dependencies")
                   THEN SetItem(deps_data, "dependencies", EmptyDict) ELSE deps_data
             d2 == DefaultVersion(d1)
             inner == Get(d2, "dependencies")
         IN  IF inner.t # "obj" THEN [raised |-> TRUE, data |-> deps_data]
             ELSE [raised |-> FALSE,
                   data |-> SetItem(d2, "dependencies", SetItem(inner, dep_name, dep_entry))]

\* find_environment4d: the walk ends at the filesystem root, untested
RECURSIVE find_environment4d(_)
find_environment4d(current) ==
    IF current = <<>> THEN NotFound
    ELSE IF IsFile(current \o <<"environment4d.json">>)
    THEN Found(current \o <<"environment4d.json">>)
    ELSE find_environment4d(Parent(current))

\* mutant: every folder counts as a sibling
IsSiblingAlways(project_root, repo_path) == TRUE

is_sibling_folder(project_root, repo_path) == Parent(repo_path) = Parent(project_root)

\* add_dependency: "Add file:// URL for local dependency": the path that
\* the URL names
FileUrlPath(repo_path) ==
    IF EndsWithDbase(repo_path) THEN repo_path
    ELSE IF IsDir(with_suffix_4dbase(repo_path)) THEN AppendDbase(repo_path)
    ELSE IF IsDir(repo_path \o <<Concat(Name(repo_path), ".4dbase")>>)
    THEN repo_path \o <<Concat(Name(repo_path), ".4dbase")>>
    ELSE repo_path

FileUrl(path) == Scalar(<<"file://">> \o PathStr(path))

\* add_dependency: the environment data between load and save
UpdateEnvironment(env_data, dep_name, file_url) ==
    IF env_data.t # "obj" THEN [raised |-> TRUE, data |-> env_data]
    ELSE LET e1 == IF ~Has(env_data, "dependencies")
                   THEN SetItem(env_data, "dependencies", EmptyDict) ELSE env_data
             e2 == IF ~Has(e1, "devDependencies")
                   THEN SetItem(e1, "devDependencies", EmptyDict) ELSE e1
             inner == Get(e2, "dependencies")
         IN  IF inner.t # "obj" THEN [raised |-> TRUE, data |-> env_data]
             ELSE [raised |-> FALSE,
                   data |-> SetItem(e2, "dependencies", SetItem(inner, dep_name, file_url))]

\* mutant: nothing is on disk until both files are ready
SavedAtTheEnd(deps_file, deps_data) == <<>>

\* save_json_file(deps_file, deps_data) has run when the environment file
\* is loaded: what is on disk if the run stops there
SavedBeforeEnvironment(deps_file, deps_data) == deps_file :> deps_data

\* add_dependency: [success, root, touched, saved], saved being the files
\* written, by path.  An exception ends the run with what was saved so far.
add_dependency(repo, name_override, tag, version, project_path) ==
    LET project_root == find_project_root_add_dependency(project_path)
        root == project_root.root
        parsed == parse_github_url(repo.segs)
        github_path == IF is_github_url(repo) /\ parsed.ok
                       THEN JoinSlash(parsed.repo) ELSE RepoStr(repo)
        url_tag == IF is_github_url(repo) THEN parsed.tag ELSE ""
        dep_name == get_dependency_name(repo, name_override)
        github_repo == is_github_repo(repo)
        dep_entry == BuildEntry(github_repo, github_path, tag, url_tag, version)
        deps_file == root \o <<"Project", "Sources", "dependencies.json">>
        deps_data == load_json_file(deps_file)
        merged == UpdateManifest(deps_data.data, dep_name, dep_entry)
        repo_path == repo.segs
        found_env == find_environment4d(root)
        env_file == IF found_env.found THEN found_env.root
                    ELSE Parent(root) \o <<"environment4d.json">>
        env_data == load_json_file(env_file)
        env_merged == UpdateEnvironment(env_data.data, dep_name,
                                        FileUrl(FileUrlPath(repo_path)))
        Result(success, read, saved) ==
            [success |-> success, root |-> project_root, touched |-> read, saved |-> saved]
    IN  IF ~project_root.found THEN Result(FALSE, {}, <<>>)
        ELSE IF deps_data.raised \/ merged.raised \/ ~CanSave(deps_file)
        THEN Result(FALSE, {deps_file}, <<>>)
        ELSE IF github_repo \/ is_sibling_folder(root, repo_path)
        THEN Result(TRUE, {deps_file}, deps_file :> merged.data)
        ELSE IF env_data.raised \/ env_merged.raised \/ ~CanSave(env_file)
        THEN Result(FALSE, {deps_file, env_file},
                    SavedBeforeEnvironment(deps_file, merged.data))
        ELSE Result(TRUE, {deps_file, env_file},
                    (deps_file :> merged.data) @@ (env_file :> env_merged.data))

\* the directories that mkdir(parents=True) leaves behind a saved file
SavedParents(saved) == UNION {Chain(Parent(path)) : path \in DOMAIN saved}

\* add_dependency.py: main, run once more on the tree as it is.  --tag with
\* --version is refused before add_dependency is called.
AddDependencyRun(args) ==
    /\ runs < MaxRuns
    /\ LET refused == IsSet(args.tag) /\ IsSet(args.version)
           result == add_dependency(args.repo, args.name_override, args.tag,
                                    args.version, args.project_path)
           saved == IF refused THEN <<>> ELSE result.saved
       IN  /\ exitCode' = IF ~refused /\ result.success THEN 0 ELSE 1
           /\ touched' = IF refused THEN {} ELSE result.touched
           /\ located' = IF refused THEN NotFound ELSE result.root
           /\ files' = files \cup DOMAIN saved
           /\ dirs' = dirs \cup SavedParents(saved)
           /\ fileData' = [path \in DOMAIN fileData \cup DOMAIN saved |->
                              IF path \in DOMAIN saved THEN JsonFile(saved[path])
                              ELSE fileData[path]]
    /\ snapshot' = [files |-> files, fileData |-> fileData]
    /\ lastArgs' = args /\ prevArgs' = lastArgs /\ runs' = runs + 1
    /\ phase' = "done" /\ tool' = "add_dependency" /\ start' = args.project_path
    /\ UNCHANGED <<cmds, prompting>>
    /\ UNCHANGED <<scanVars, walkVars, extractVars, publishVars>>

(***************************************************************************)
(* SpecManifest: add_dependency.py run, up to MaxRuns times, with a remote *)
(* repo argument on the project /proj, whose manifest is absent,           *)
(* unparseable, or any JSON value of ManifestPool.                         *)
(***************************************************************************)
ProjectDir == <<"proj">>
DepsFile == ProjectDir \o <<"Project", "Sources", "dependencies.json">>

TagEntry == Obj(<<Pair("github", Scalar(<<"o", "/", "x">>)), Pair("tag", Scalar(<<"t0">>))>>)

\* values of the manifest's "dependencies" member
DependenciesPool ==
    { EmptyDict,
      Obj(<<Pair("Bar", TagEntry)>>),
      Obj(<<Pair("r", EmptyDict)>>),
      Obj(<<Pair("Bar", TagEntry), Pair("r", EmptyDict)>>),
      Obj(<<Pair("r", EmptyDict), Pair("Bar", TagEntry)>>),
      Scalar(<<"null">>) }

TopKeys == {"dependencies", "version", "name"}

\* the orders in which a manifest may list some of its top-level keys
KeyOrders ==
    {ks \in UNION {[1..n -> TopKeys] : n \in 0..Cardinality(TopKeys)} :
        \A i, j \in 1..Len(ks) : i # j => ks[i] # ks[j]}

ManifestPool ==
    {Obj([i \in 1..Len(ks) |->
            Pair(ks[i], CASE ks[i] = "dependencies" -> inner
                          [] ks[i] = "version" -> Scalar(<<"0">>)
                          [] OTHER -> Scalar(<<"App">>))]) :
        ks \in KeyOrders, inner \in DependenciesPool}
    \cup {Scalar(<<"null">>)}

RemoteRepos ==
    { [kind |-> "slug", segs |-> <<"o", "r">>],
      [kind |-> "url", segs |-> <<"o", "r", "releases", "tag", "u1">>],
      [kind |-> "url", segs |-> <<"o">>] }

RemoteArgs ==
    [repo : RemoteRepos, name_override : {"", "Foo"}, tag : {"", "t1"},
     version : {"", "1.1.0"}, project_path : {ProjectDir}]

ManifestInit ==
    /\ dirs = Chain(Parent(DepsFile))
    /\ \/ files = {} /\ fileData = <<>>
       \/ /\ files = {DepsFile}
          /\ \E f \in {JsonFile(m) : m \in ManifestPool} \cup {BadJson} :
                 fileData = (DepsFile :> f)
    /\ phase = "build" /\ tool = "none" /\ start = <<>> /\ located = NotFound
    /\ exitCode = -1 /\ touched = {} /\ cmds = <<>> /\ prompting = FALSE
    /\ snapshot = [files |-> {}, fileData |-> <<>>]
    /\ lastArgs = NoArgs /\ prevArgs = NoArgs /\ runs = 0
    /\ ScanIdle

ManifestNext == \E args \in RemoteArgs : AddDependencyRun(args)

SpecManifest == ManifestInit /\ [][ManifestNext]_vars

(***************************************************************************)
(* Properties of the manifest merger (checked under SpecManifest).         *)
(***************************************************************************)
\* the last run wrote its files and ended with outcome 0
Completed == runs >= 1 /\ tool = "add_dependency" /\ exitCode = 0

\* what a JSON file held before the last run ({} when it was absent) and
\* what it holds now
Before(path) ==
    IF path \in snapshot.files THEN snapshot.fileData[path].json ELSE EmptyDict
After(path) == fileData[path].json

\* the members of an object other than the one under key, in order
Without(d, key) == SelectSeq(d.o, LAMBDA member : member.k # key)
\* the keys of d that are also keys of e, in d's order
SharedKeys(d, e) == SelectSeq(KeysOf(d), LAMBDA key : Has(e, key))
Count(d, key) == Cardinality({i \in 1..Len(d.o) : d.o[i].k = key})

DepsOf(d) == IF Has(d, "dependencies") THEN Get(d, "dependencies") ELSE EmptyDict

\* the name and the entry that the last command line asks to upsert
LastName == get_dependency_name(lastArgs.repo, lastArgs.name_override)
LastUrlTag ==
    IF is_github_url(lastArgs.repo) THEN parse_github_url(lastArgs.repo.segs).tag ELSE ""
LastEntry ==
    BuildEntry(is_github_repo(lastArgs.repo),
               IF is_github_url(lastArgs.repo) /\ parse_github_url(lastArgs.repo.segs).ok
               THEN JoinSlash(parse_github_url(lastArgs.repo.segs).repo)
               ELSE RepoStr(lastArgs.repo),
               lastArgs.tag, LastUrlTag, lastArgs.version)

\* C11: an upsert under name N leaves every other key of the manifest and
\* every other entry of its dependencies mapping as it was (same keys,
\* same values, same order), and afterwards dependencies[N] is the new
\* entry, once, in place of any prior entry under N.
C11_UpsertFrame ==
    Completed =>
        LET old == Before(DepsFile)
            new == After(DepsFile)
        IN  /\ Without(new, "dependencies")
                   = Without(old, "dependencies")
                     \o (IF Has(old, "version") THEN <<>>
                         ELSE <<Pair("version", Get(new, "version"))>>)
            /\ SharedKeys(new, old) = KeysOf(old)
            /\ Without(DepsOf(new), LastName) = Without(DepsOf(old), LastName)
            /\ KeysOf(DepsOf(new)) =
                   IF Has(DepsOf(old), LastName) THEN KeysOf(DepsOf(old))
                   ELSE Append(KeysOf(DepsOf(old)), LastName)
            /\ Count(DepsOf(new), LastName) = 1
            /\ Get(DepsOf(new), LastName) = LastEntry

\* C11 witness: "Foo" was upserted into a manifest that listed "Bar" and
\* another top-level key; "Bar" is as it was and "Foo" follows it.
C11_Witness ==
    /\ Completed
    /\ LastName = "Foo"
    /\ Has(Before(DepsFile), "name")
    /\ Has(DepsOf(Before(DepsFile)), "Bar") /\ ~Has(DepsOf(Before(DepsFile)), "Foo")
    /\ Get(DepsOf(After(DepsFile)), "Bar") = TagEntry
    /\ Get(DepsOf(After(DepsFile)), "Foo") = LastEntry
    /\ Get(After(DepsFile), "name") = Get(Before(DepsFile), "name")

\* C12: upserting is idempotent: whatever the manifest was (absent, empty
\* or populated), running the same command line a second time leaves the
\* files exactly as the first run left them.
C12_UpsertIdempotent ==
    (runs >= 2 /\ lastArgs = prevArgs) =>
        /\ files = snapshot.files
        /\ fileData = snapshot.fileData

\* C12 witness: the same upsert completed twice on a populated manifest,
\* which holds the entry and is as the first run left it.
C12_Witness ==
    /\ runs = 2 /\ lastArgs = prevArgs /\ Completed
    /\ Has(After(DepsFile), "name") /\ Has(DepsOf(After(DepsFile)), "Bar")
    /\ Get(DepsOf(After(DepsFile)), LastName) = LastEntry
    /\ After(DepsFile) = Before(DepsFile)

\* C13: after any upsert the manifest has a dependencies mapping and a
\* version field; the version is the default only when the field was
\* absent before, and a version already there, whatever its value, is the
\* one written back.
C13_VersionOnlyDefaulted ==
    Completed =>
        LET old == Before(DepsFile)
            new == After(DepsFile)
        IN  /\ Has(new, "dependencies") /\ Get(new, "dependencies").t = "obj"
            /\ Has(new, "version")
            /\ Get(new, "version") =
                   IF Has(old, "version") THEN Get(old, "version")
                   ELSE Scalar(<<"2130">>)

\* C13 witness: an upsert completed on a manifest whose version was 0 and
\* which had no dependencies member: the version is still 0 and the
\* mapping is there.
C13_Witness ==
    /\ Completed
    /\ DepsFile \in snapshot.files
    /\ Has(Before(DepsFile), "version")
    /\ Get(Before(DepsFile), "version").s \in FalsyVersions
    /\ ~Has(Before(DepsFile), "dependencies")
    /\ Get(After(DepsFile), "version") = Get(Before(DepsFile), "version")
    /\ Has(After(DepsFile), "dependencies")

\* the last command line was not refused by main
Accepted == runs >= 1 /\ ~(IsSet(lastArgs.tag) /\ IsSet(lastArgs.version))

\* C14: when the manifest file exists but cannot be parsed, the merger
\* starts from the empty structure and writes a complete, well-formed
\* manifest: the new entry alone under dependencies, and a version.
C14_UnparseableManifestReplaced ==
    (Accepted /\ DepsFile \in snapshot.files /\ snapshot.fileData[DepsFile] = BadJson) =>
        /\ fileData[DepsFile].kind = "json"
        /\ After(DepsFile) =
               Obj(<<Pair("dependencies", Obj(<<Pair(LastName, LastEntry)>>)),
                     Pair("version", Scalar(<<"2130">>))>>)

\* C15: a command line that asks for both an exact tag, given by --tag or
\* by a release URL, and a semantic version is rejected: the outcome is
\* not zero and no file was read or written.
C15_TagAndVersionRejected ==
    (runs >= 1 /\ IsSet(lastArgs.version) /\ (IsSet(lastArgs.tag) \/ IsSet(LastUrlTag))) =>
        /\ exitCode # 0
        /\ touched = {}
        /\ files = snapshot.files /\ fileData = snapshot.fileData

\* what main does refuse: --tag together with --version
TagOptionAndVersionRejected ==
    (runs >= 1 /\ IsSet(lastArgs.version) /\ IsSet(lastArgs.tag)) =>
        /\ exitCode # 0
        /\ touched = {}
        /\ files = snapshot.files /\ fileData = snapshot.fileData

\* a remote entry: a github field, and not both a tag and a version
WellFormedRemote(e) ==
    /\ e.t = "obj" /\ Has(e, "github")
    /\ ~(Has(e, "tag") /\ Has(e, "version"))

OptionValues == {"", "t1", "u1", "1.1.0"}

\* C16: every remote entry written to the manifest has a github field and
\* at most one of tag and version, for every combination of --tag,
\* --version and a tag in the repo URL; a --tag is the tag written even
\* when the URL has one, a URL tag is written otherwise, and the version
\* only when there is no tag at all.
C16_RemoteEntryOneOfTagVersion ==
    /\ \A tag \in OptionValues, url_tag \in OptionValues, version \in OptionValues :
           WellFormedRemote(BuildEntry(TRUE, <<"o", "/", "r">>, tag, url_tag, version))
    /\ (Completed /\ is_github_repo(lastArgs.repo)) =>
           LET e == Get(DepsOf(After(DepsFile)), LastName)
               tag == IF IsSet(lastArgs.tag) THEN lastArgs.tag ELSE LastUrlTag
           IN  /\ WellFormedRemote(e)
               /\ Has(e, "tag") <=> IsSet(tag)
               /\ Has(e, "tag") => Get(e, "tag") = Scalar(<<tag>>)
               /\ Has(e, "version") <=> (~IsSet(tag) /\ IsSet(lastArgs.version))
               /\ Has(e, "version") => Get(e, "version") = Scalar(<<lastArgs.version>>)

\* C16 witness: a release URL was given together with --tag; the entry
\* written carries the --tag value and no version.
C16_Witness ==
    /\ Completed
    /\ IsSet(lastArgs.tag) /\ IsSet(LastUrlTag) /\ lastArgs.tag # LastUrlTag
    /\ Get(Get(DepsOf(After(DepsFile)), LastName), "tag") = Scalar(<<lastArgs.tag>>)
    /\ ~Has(Get(DepsOf(After(DepsFile)), LastName), "version")

(***************************************************************************)
(* SpecLocal: add_dependency.py run, up to MaxRuns times, with a local     *)
(* folder as repo argument, on the project /w/proj.  The tree holds any    *)
(* of the candidate dependency folders, and an environment4d.json, empty,  *)
(* populated or unparseable, in any of the project's ancestors.            *)
(***************************************************************************)
LocalProject == <<"w", "proj">>
LocalDepsFile == LocalProject \o <<"Project", "Sources", "dependencies.json">>
EnvName == "environment4d.json"

\* the folders a repo argument names, or that stand next to or inside one
CandidateDirs ==
    { <<"w", "Comp">>, <<"x", "Comp">>, <<"x", "Comp.v2">>, <<"x", "Comp.4dbase">>,
      <<"x", "Comp.v2.4dbase">>, <<"x", "Comp", "Comp.4dbase">> }

LocalRepos == {<<"w", "Comp">>, <<"x", "Comp">>, <<"x", "Comp.v2">>, <<"x", "Comp.4dbase">>}

LocalArgs ==
    [repo : {[kind |-> "path", segs |-> r] : r \in LocalRepos}, name_override : {""},
     tag : {""}, version : {""}, project_path : {LocalProject}]

OldUrl == Scalar(<<"file://", "/", "old">>)

EnvPool ==
    { JsonFile(EmptyDict),
      JsonFile(Obj(<<Pair("dependencies",
                          Obj(<<Pair("Other", OldUrl), Pair("Comp", OldUrl)>>))>>)),
      BadJson }

EnvPaths == {d \o <<EnvName>> : d \in Chain(LocalProject)}

LocalInit ==
    /\ \E ds \in SUBSET CandidateDirs :
           /\ \A d \in ds : Len(d) = 3 => Parent(d) \in ds
           /\ dirs = Chain(Parent(LocalDepsFile)) \cup {<<"x">>} \cup ds
    /\ \E es \in SUBSET EnvPaths :
           /\ files = es
           /\ fileData \in [es -> EnvPool]
    /\ phase = "build" /\ tool = "none" /\ start = <<>> /\ located = NotFound
    /\ exitCode = -1 /\ touched = {} /\ cmds = <<>> /\ prompting = FALSE
    /\ snapshot = [files |-> {}, fileData |-> <<>>]
    /\ lastArgs = NoArgs /\ prevArgs = NoArgs /\ runs = 0
    /\ ScanIdle

LocalNext == \E args \in LocalArgs : AddDependencyRun(args)

SpecLocal == LocalInit /\ [][LocalNext]_vars

(***************************************************************************)
(* Properties of local dependencies (checked under SpecLocal).             *)
(***************************************************************************)
IsEnvPath(path) == path # <<>> /\ Name(path) = EnvName

\* the last run was given a local folder and found the project
LocalRun == Accepted /\ located.found /\ ~is_github_repo(lastArgs.repo)

\* the dependency folder shares the project root's parent
SharesParent == Parent(lastArgs.repo.segs) = Parent(located.root)

\* no environment file was created or modified by the last run
EnvUntouched ==
    /\ {path \in files : IsEnvPath(path)} = {path \in snapshot.files : IsEnvPath(path)}
    /\ \A path \in snapshot.files : IsEnvPath(path) => fileData[path] = snapshot.fileData[path]

\* C17: for a local dependency the manifest entry written is the empty
\* object, and an environment file is read, created or written if and
\* only if the dependency folder does not share the project root's
\* parent; for a sibling no environment file is created or modified.
C17_EnvironmentOnlyForNonSibling ==
    LocalRun =>
        /\ Get(DepsOf(After(LocalDepsFile)), LastName) = EmptyDict
        /\ (\E path \in touched : IsEnvPath(path)) <=> ~SharesParent
        /\ SharesParent => EnvUntouched
        /\ (~SharesParent /\ exitCode = 0) =>
               \E path \in touched :
                   IsEnvPath(path) /\ IsFile(path) /\ Has(DepsOf(After(path)), LastName)

\* C17 witness: a sibling folder was added to a project that has an
\* environment file next to it; the manifest has the empty entry and the
\* environment file was not looked at.
C17_Witness ==
    /\ LocalRun /\ SharesParent /\ exitCode = 0
    /\ runs = 1
    /\ Parent(located.root) \o <<EnvName>> \in files
    /\ Get(DepsOf(After(LocalDepsFile)), LastName) = EmptyDict
    /\ touched = {LocalDepsFile}
    /\ EnvUntouched

\* the last run completed for a folder that is no sibling of the project
NonSiblingDone == LocalRun /\ ~SharesParent /\ exitCode = 0

\* the ancestors of the project root, itself and "/" included, that held an
\* environment file before the last run
EnvHolders == {d \in Chain(located.root) : d \o <<EnvName>> \in snapshot.files}

\* C18: for a non-sibling local dependency the reference goes to the
\* nearest environment4d.json that exists on the way up from the project
\* root (the root first, then each ancestor); only when there is none is
\* a new one created, in the project root's parent.  The other entries of
\* that file's dependencies are as they were, and no other environment
\* file is created or changed.
C18_NearestEnvironmentFile ==
    NonSiblingDone =>
        LET target == IF EnvHolders # {} THEN Nearest(EnvHolders) \o <<EnvName>>
                      ELSE Parent(located.root) \o <<EnvName>>
        IN  /\ target \in touched /\ IsFile(target)
            /\ Has(DepsOf(After(target)), LastName)
            /\ Without(DepsOf(After(target)), LastName)
                   = Without(DepsOf(Before(target)), LastName)
            /\ \A path \in files \cup snapshot.files :
                   (IsEnvPath(path) /\ path # target) =>
                       /\ path \in snapshot.files
                       /\ fileData[path] = snapshot.fileData[path]

\* where the walk in find_environment4d does look: the ancestors below "/"
EnvHoldersBelowRoot == {d \in EnvHolders : d # <<>>}

\* what the code does: as C18, over the ancestors below the filesystem root
NearestEnvironmentFileBelowRoot ==
    NonSiblingDone =>
        LET target == IF EnvHoldersBelowRoot # {}
                      THEN Nearest(EnvHoldersBelowRoot) \o <<EnvName>>
                      ELSE Parent(located.root) \o <<EnvName>>
        IN  /\ target \in touched /\ IsFile(target)
            /\ Has(DepsOf(After(target)), LastName)
            /\ Without(DepsOf(After(target)), LastName)
                   = Without(DepsOf(Before(target)), LastName)
            /\ \A path \in files \cup snapshot.files :
                   (IsEnvPath(path) /\ path # target) =>
                       /\ path \in snapshot.files
                       /\ fileData[path] = snapshot.fileData[path]

\* the folders that the statement lists for a given path, in its order
SiblingSuffixed(path) == Parent(path) \o <<Concat(Name(path), ".4dbase")>>
NestedSuffixed(path) == path \o <<Concat(Name(path), ".4dbase")>>

\* C19: the file:// reference written for a non-sibling local dependency
\* names the first existing folder among <path>.4dbase and
\* <path>/<base>.4dbase, and the given path when neither exists: the path
\* in the URL is the path whose existence was tested.
C19_FirstExistingCandidate ==
    NonSiblingDone =>
        LET path == lastArgs.repo.segs
            expected == IF IsDir(SiblingSuffixed(path)) THEN SiblingSuffixed(path)
                        ELSE IF IsDir(NestedSuffixed(path)) THEN NestedSuffixed(path)
                        ELSE path
        IN  \E env \in touched :
                /\ IsEnvPath(env)
                /\ Get(DepsOf(After(env)), LastName) = FileUrl(expected)


(***************************************************************************)
(* doc_lookup.py: TextExtractor.  HTMLParser.feed calls one handler per    *)
(* tag or run of text, in document order; fed logs the calls, and for a    *)
(* run of text whether it was appended to text_parts.                      *)
(***************************************************************************)
SkipTags == {"nav", "footer", "script", "style", "header"}
HeadingTags == {"h1", "h2", "h3", "h4"}

\* the markers appended for headings, paragraphs, code and pre
HeadingMark == "\n## "
ParagraphMark == "\n"
CodeMark == "(backtick)"
FenceMark == "\n(fence)\n"

Event(kind, tag, emitted) == [kind |-> kind, tag |-> tag, emitted |-> emitted]

\* handle_starttag(tag, attrs); markdown says whether the class attribute
\* contains "markdown"
handle_starttag(tag, markdown) ==
    /\ Len(fed) < MaxEvents
    /\ in_article' = IF tag = "article" \/ markdown THEN TRUE ELSE in_article
    /\ skip' = IF tag \in SkipTags THEN TRUE ELSE skip
    /\ depth' = IF tag \in SkipTags THEN depth + 1 ELSE depth
    /\ text_parts' = text_parts
                     \o (IF tag \in HeadingTags THEN <<HeadingMark>> ELSE <<>>)
                     \o (IF tag = "p" THEN <<ParagraphMark>> ELSE <<>>)
                     \o (IF tag = "code" THEN <<CodeMark>> ELSE <<>>)
                     \o (IF tag = "pre" THEN <<FenceMark>> ELSE <<>>)
    /\ fed' = Append(fed, Event("start", tag, FALSE))
    /\ UNCHANGED <<rootVars, scanVars, depVars, walkVars, publishVars>>

\* self.depth -= 1, and back to 0 when that went to zero or below
DepthAfterEnd(d) == IF d - 1 <= 0 THEN 0 ELSE d - 1

\* handle_endtag(tag)
handle_endtag(tag) ==
    /\ Len(fed) < MaxEvents
    /\ depth' = IF tag \in SkipTags THEN DepthAfterEnd(depth) ELSE depth
    /\ skip' = IF tag \in SkipTags /\ depth - 1 <= 0 THEN FALSE ELSE skip
    /\ text_parts' = text_parts
                     \o (IF tag = "code" THEN <<CodeMark>> ELSE <<>>)
                     \o (IF tag = "pre" THEN <<FenceMark>> ELSE <<>>)
    /\ fed' = Append(fed, Event("end", tag, FALSE))
    /\ UNCHANGED in_article
    /\ UNCHANGED <<rootVars, scanVars, depVars, walkVars, publishVars>>

\* handle_data(data)
handle_data(data) ==
    /\ Len(fed) < MaxEvents
    /\ text_parts' = IF ~skip THEN Append(text_parts, data) ELSE text_parts
    /\ fed' = Append(fed, Event("data", "", ~skip))
    /\ UNCHANGED <<in_article, skip, depth>>
    /\ UNCHANGED <<rootVars, scanVars, depVars, walkVars, publishVars>>

(***************************************************************************)
(* SpecExtract: one TextExtractor fed at most MaxEvents events over a few  *)
(* tags.                                                                   *)
(***************************************************************************)
FedTags == {"nav", "footer", "code", "div"}

ExtractInit ==
    /\ ExtractorNew
    /\ PublishIdle
    /\ dirs = {<<>>} /\ files = {} /\ phase = "idle" /\ tool = "doc_lookup"
    /\ start = <<>> /\ located = NotFound /\ exitCode = -1 /\ touched = {}
    /\ cmds = <<>> /\ prompting = FALSE
    /\ DepIdle
    /\ methodsDir = {} /\ classesDir = {} /\ pc = "idle" /\ todo = <<>>
    /\ methods = <<>> /\ classes = <<>> /\ output = NoOutput
    /\ sourcesDir = BareSources /\ WalkIdle

ExtractNext ==
    \/ \E tag \in FedTags, markdown \in BOOLEAN : handle_starttag(tag, markdown)
    \/ \E tag \in FedTags : handle_endtag(tag)
    \/ handle_data("x")

SpecExtract == ExtractInit /\ [][ExtractNext]_vars

(***************************************************************************)
(* Claims about TextExtractor (SpecExtract).  An element is open from its  *)
(* start tag to the matching end tag; an end tag that matches no open      *)
(* element closes nothing.                                                 *)
(***************************************************************************)
\* the last place of the stack that holds the tag, 0 if none
LastOpen(stack, tag) ==
    IF \E i \in 1..Len(stack) : stack[i] = tag
    THEN CHOOSE i \in 1..Len(stack) :
             stack[i] = tag /\ \A j \in 1..Len(stack) : stack[j] = tag => j <= i
    ELSE 0

\* the elements open after the events, outermost first
RECURSIVE OpenAfter(_)
OpenAfter(events) ==
    IF events = <<>> THEN <<>>
    ELSE LET before == OpenAfter(SubSeq(events, 1, Len(events) - 1))
             e == events[Len(events)]
         IN  IF e.kind = "start" THEN Append(before, e.tag)
             ELSE IF e.kind = "end" /\ LastOpen(before, e.tag) > 0
             THEN SubSeq(before, 1, LastOpen(before, e.tag) - 1)
             ELSE before

InsideSkipped(events) ==
    \E i \in 1..Len(OpenAfter(events)) : OpenAfter(events)[i] \in SkipTags

\* every end tag closes the element opened last
WellNested(events) ==
    \A i \in 1..Len(events) :
        events[i].kind = "end" =>
            LET before == OpenAfter(SubSeq(events, 1, i - 1))
            IN  before # <<>> /\ before[Len(before)] = events[i].tag

NoTextFromSkipped ==
    \A i \in 1..Len(fed) :
        (fed[i].kind = "data" /\ InsideSkipped(SubSeq(fed, 1, i - 1))) => ~fed[i].emitted

\* C25 as stated: no run of text inside a nav, footer, script, style or
\* header element is ever appended, nested or not, until the outermost such
\* element is closed; and after every event depth >= 0 and skip is true
\* exactly when depth > 0.
C25_NoTextInsideSkippedContainers ==
    /\ NoTextFromSkipped
    /\ depth >= 0
    /\ skip = (depth > 0)

\* after every event depth >= 0 and skip is true exactly when depth > 0
DepthAndSkipAgree == depth >= 0 /\ skip = (depth > 0)

\* as long as every end tag closes the element opened last, no text from
\* inside a skipped element is appended
NoTextFromSkippedWhenWellNested == WellNested(fed) => NoTextFromSkipped

(***************************************************************************)
(* Claims about the order of the two writes of add_dependency (SpecLocal). *)
(***************************************************************************)
\* the last run was for a folder that is no sibling of the project, and
\* failed
NonSiblingFailed == LocalRun /\ ~SharesParent /\ exitCode # 0

\* C26: for a non-sibling local dependency the manifest is written before
\* the environment file is loaded: when the environment step fails the run
\* fails, the manifest already holds the new entry (it is created if it was
\* not there) and stays so, and no environment file is changed.
C26_ManifestWrittenBeforeEnvironment ==
    NonSiblingFailed =>
        /\ LocalDepsFile \in files
        /\ Has(DepsOf(After(LocalDepsFile)), LastName)
        /\ LocalDepsFile \in touched
        /\ \E path \in touched : IsEnvPath(path)
        /\ EnvUntouched

\* C26 witness: the first run on a project without manifest, whose
\* environment file does not parse: the run fails, the manifest now exists
\* with the entry, the environment file is as it was.
C26_Witness ==
    /\ NonSiblingFailed
    /\ runs = 1
    /\ LocalDepsFile \notin snapshot.files
    /\ LocalDepsFile \in files
    /\ Get(DepsOf(After(LocalDepsFile)), LastName) = EmptyDict
    /\ \E path \in touched : IsEnvPath(path) /\ fileData[path] = BadJson
    /\ EnvUntouched

(***************************************************************************)
(* install_workflows.py: install_workflows called on a project whose       *)
(* .github/workflows may already hold workflow files.  A workflow file is  *)
(* known by where its text comes from: the user, or an asset of the skill. *)
(***************************************************************************)
WorkflowFile(origin) == [kind |-> "yaml", json |-> Scalar(<<origin>>)]

InstallRoot == <<"proj">>
WorkflowNames == {"build.yml", "release.yml", "releaseOnTag.yml", "releaseOnCreate.yml"}
AssetNames == {"build.yml", "releaseOnTag.yml", "releaseOnCreate.yml"}

\* copy_workflow(src_name, dest_dir, dest_name): nothing is copied when the
\* asset is missing
copy_workflow(assets, src_name, dest_dir, dest_name) ==
    IF src_name \in assets
    THEN (dest_dir \o <<dest_name>>) :> WorkflowFile(src_name)
    ELSE <<>>

\* install_workflows(project_root, build, release, interactive), the
\* prompts answered by answer_build and answer_release, the skill's assets
\* folder holding assets
InstallWorkflows(project_root, build, release, interactive, answer_build, answer_release, assets) ==
    /\ runs < MaxRuns
    /\ LET workflows_dir == WorkflowsDir(project_root)
           r == install_workflows(BuildExists(project_root), ReleaseExists(project_root),
                                  build, release, interactive, answer_build,
                                  answer_release)
           made == IF r.mkdir
                   THEN {project_root \o <<".github">>, workflows_dir} \ dirs
                   ELSE {}
           copied == (IF r.copy_build
                      THEN copy_workflow(assets, "build.yml", workflows_dir, "build.yml")
                      ELSE <<>>)
                     @@ (IF r.copy_release = "tag"
                         THEN copy_workflow(assets, "releaseOnTag.yml", workflows_dir,
                                            "release.yml")
                         ELSE IF r.copy_release = "create"
                         THEN copy_workflow(assets, "releaseOnCreate.yml", workflows_dir,
                                            "release.yml")
                         ELSE <<>>)
       IN  /\ dirs' = dirs \cup made
           /\ files' = files \cup DOMAIN copied
           /\ fileData' = copied @@ fileData
           /\ touched' = made \cup DOMAIN copied
    /\ snapshot' = [files |-> files, fileData |-> fileData]
    /\ runs' = runs + 1
    /\ tool' = "install_workflows" /\ start' = project_root
    /\ located' = Found(project_root)
    /\ prompting' = interactive
    /\ phase' = "done"
    /\ UNCHANGED <<exitCode, cmds, lastArgs, prevArgs>>
    /\ UNCHANGED <<scanVars, walkVars, extractVars, publishVars>>

(***************************************************************************)
(* SpecInstall: at most MaxRuns calls of install_workflows, with every     *)
(* combination of arguments and answers, on a project that starts with any *)
(* of the workflow files.                                                  *)
(***************************************************************************)
InstallInit ==
    /\ \E present \in SUBSET WorkflowNames, github, workflows \in BOOLEAN :
           /\ workflows => github
           /\ present # {} => workflows
           /\ dirs = {<<>>, InstallRoot, InstallRoot \o <<"Project">>}
                     \cup (IF github THEN {InstallRoot \o <<".github">>} ELSE {})
                     \cup (IF workflows THEN {WorkflowsDir(InstallRoot)} ELSE {})
           /\ files = {InstallRoot \o <<"Project", "P.4DProject">>}
                      \cup {WorkflowsDir(InstallRoot) \o <<name>> : name \in present}
           /\ fileData = [path \in {WorkflowsDir(InstallRoot) \o <<name>> : name \in present}
                             |-> WorkflowFile("user")]
    /\ phase = "build" /\ tool = "none" /\ start = <<>> /\ located = NotFound
    /\ exitCode = -1 /\ touched = {} /\ cmds = <<>> /\ prompting = FALSE
    /\ snapshot = [files |-> {}, fileData |-> <<>>]
    /\ lastArgs = NoArgs /\ prevArgs = NoArgs /\ runs = 0
    /\ ScanIdle

InstallNext ==
    \E build \in {"None", "True", "False"}, release \in {"None", "tag", "create"},
       interactive \in BOOLEAN, answer_build \in {"y", "n"},
       answer_release \in {"1", "2", "3"}, assets \in SUBSET AssetNames :
        InstallWorkflows(InstallRoot, build, release, interactive, answer_build,
                         answer_release, assets)

SpecInstall == InstallInit /\ [][InstallNext]_vars

(***************************************************************************)
(* Claims about install_workflows (SpecInstall).                           *)
(***************************************************************************)
Installed == tool = "install_workflows" /\ runs >= 1

Workflow(name) == WorkflowsDir(InstallRoot) \o <<name>>

BuildWasThere == Workflow("build.yml") \in snapshot.files
ReleaseWasThere ==
    \E name \in {"release.yml", "releaseOnTag.yml", "releaseOnCreate.yml"} :
        Workflow(name) \in snapshot.files

\* C27: install_workflows never overwrites a workflow, whatever the
\* arguments and the answers: every file that was there is there with the
\* text it had; build.yml is copied only if it was not there, release.yml
\* only if none of release.yml, releaseOnTag.yml, releaseOnCreate.yml was
\* there; when a build and a release workflow were there nothing is copied.
C27_NeverOverwritesWorkflow ==
    Installed =>
        /\ \A path \in snapshot.files :
               /\ path \in files
               /\ path \in DOMAIN snapshot.fileData => fileData[path] = snapshot.fileData[path]
        /\ files \ snapshot.files \subseteq {Workflow("build.yml"), Workflow("release.yml")}
        /\ Workflow("build.yml") \in touched => ~BuildWasThere
        /\ Workflow("release.yml") \in touched => ~ReleaseWasThere
        /\ (BuildWasThere /\ ReleaseWasThere) => touched = {}

\* C27 witness: the user's build.yml was there and no release workflow; the
\* call copied release.yml and left build.yml with the user's text.
C27_Witness ==
    /\ Installed
    /\ BuildWasThere /\ ~ReleaseWasThere
    /\ Workflow("release.yml") \in touched
    /\ fileData[Workflow("release.yml")] = WorkflowFile("releaseOnTag.yml")
    /\ fileData[Workflow("build.yml")] = WorkflowFile("user")

(***************************************************************************)
(* publish.py (4d-publish-github): main, one action per step.  host is     *)
(* what the commands find: git, gh and brew installed, macOS, a .git       *)
(* folder, a remote origin, gh authenticated, a README.md, and whether     *)
(* --description was given.  calls logs every command with its return      *)
(* code (0 is success).                                                    *)
(***************************************************************************)
Call(cmd, ok) == [cmd |-> cmd, rc |-> IF ok THEN 0 ELSE 1]
Step(step, ok) == [step |-> step, ok |-> ok]

\* check_git: its calls and what it returns
check_git(h) == [calls |-> <<Call("which git", h.git)>>, host |-> h, ok |-> h.git]

\* check_gh(interactive): choice answers the install prompt, install_ok is
\* the outcome of brew install gh
check_gh(h, interactive, choice, install_ok) ==
    IF h.gh THEN [calls |-> <<Call("which gh", TRUE)>>, host |-> h, ok |-> TRUE]
    ELSE IF interactive /\ h.darwin /\ h.brew /\ choice # "n"
    THEN [calls |-> <<Call("which gh", FALSE), Call("which brew", TRUE),
                      Call("brew install gh", install_ok)>>,
          host |-> [h EXCEPT !.gh = install_ok],
          ok |-> install_ok]
    ELSE [calls |-> <<Call("which gh", FALSE)>>
                    \o (IF interactive /\ h.darwin
                        THEN <<Call("which brew", h.brew)>> ELSE <<>>),
          host |-> h, ok |-> FALSE]

\* setup_git(project_root, interactive): the outcome of the git commands
\* is not looked at
setup_git(h, interactive, choice, init_ok) ==
    IF h.repo THEN [calls |-> <<>>, host |-> h, ok |-> TRUE]
    ELSE IF interactive /\ choice = "n" THEN [calls |-> <<>>, host |-> h, ok |-> FALSE]
    ELSE [calls |-> <<Call("git init", init_ok), Call("git add .", init_ok),
                      Call("git commit", init_ok)>>,
          host |-> [h EXCEPT !.repo = init_ok],
          ok |-> TRUE]

\* the part of setup_github_repo after the authentication check
create_repo(h, interactive, before, create_choice, typed, create_ok) ==
    LET description == h.description \/ (interactive /\ typed)
        readme == IF description /\ ~h.readme
                  THEN <<Call("git add README.md", TRUE), Call("git commit README", TRUE)>>
                  ELSE <<>>
    IN  IF interactive /\ create_choice = "n"
        THEN [calls |-> before, host |-> h, ok |-> FALSE]
        ELSE [calls |-> before \o readme \o <<Call("gh repo create", create_ok)>>,
              host |-> [h EXCEPT !.readme = h.readme \/ description,
                                 !.remote = create_ok],
              ok |-> create_ok]

\* mutant: the repository is created whatever gh auth status says
setup_github_repo_unauthenticated(h, interactive, login_choice, login_ok, create_choice, typed, create_ok) ==
    LET probe == <<Call("git remote get-url origin", h.remote)>>
        auth == <<Call("gh auth status", h.authed)>>
    IN  IF h.remote THEN [calls |-> probe, host |-> h, ok |-> TRUE]
        ELSE create_repo(h, interactive, probe \o auth, create_choice, typed, create_ok)

\* setup_github_repo(project_root, project_name, public, description,
\* interactive): login_choice and create_choice answer the prompts, typed
\* says whether a description was typed, login_ok and create_ok are the
\* outcomes of gh auth login and gh repo create
setup_github_repo(h, interactive, login_choice, login_ok, create_choice, typed, create_ok) ==
    LET probe == <<Call("git remote get-url origin", h.remote)>>
        auth == <<Call("gh auth status", h.authed)>>
        login == <<Call("gh auth login", login_ok), Call("gh auth status", login_ok)>>
    IN  IF h.remote THEN [calls |-> probe, host |-> h, ok |-> TRUE]
        ELSE IF h.authed
        THEN create_repo(h, interactive, probe \o auth, create_choice, typed, create_ok)
        ELSE IF ~interactive \/ login_choice = "n"
        THEN [calls |-> probe \o auth, host |-> h, ok |-> FALSE]
        ELSE IF ~login_ok
        THEN [calls |-> probe \o auth \o login, host |-> h, ok |-> FALSE]
        ELSE create_repo([h EXCEPT !.authed = TRUE], interactive,
                         probe \o auth \o login, create_choice, typed, create_ok)

\* main: one step was run; on False main returns 1, after the last step 0
Advance(step, r, next) ==
    /\ calls' = calls \o r.calls
    /\ host' = r.host
    /\ steps' = Append(steps, Step(step, r.ok))
    /\ at' = IF r.ok THEN next ELSE "returned"
    /\ status' = IF ~r.ok THEN 1 ELSE IF next = "returned" THEN 0 ELSE status
    /\ UNCHANGED <<rootVars, scanVars, depVars, walkVars, extractVars>>

CheckGit ==
    /\ at = "check_git"
    /\ Advance("check_git", check_git(host), "check_gh")

CheckGh(choice, install_ok) ==
    /\ at = "check_gh"
    /\ Advance("check_gh", check_gh(host, prompting, choice, install_ok), "setup_git")

SetupGit(choice, init_ok) ==
    /\ at = "setup_git"
    /\ Advance("setup_git", setup_git(host, prompting, choice, init_ok),
               "setup_github_repo")

SetupGithubRepo(login_choice, login_ok, create_choice, typed, create_ok) ==
    /\ at = "setup_github_repo"
    /\ Advance("setup_github_repo",
               setup_github_repo(host, prompting, login_choice, login_ok,
                                 create_choice, typed, create_ok),
               "returned")

(***************************************************************************)
(* SpecPublish: one run of main on any host, with or without --yes.        *)
(***************************************************************************)
PublishInit ==
    /\ host \in [git : BOOLEAN, gh : BOOLEAN, brew : BOOLEAN, darwin : BOOLEAN,
                 repo : BOOLEAN, remote : BOOLEAN, authed : BOOLEAN,
                 readme : BOOLEAN, description : BOOLEAN]
    /\ host.remote => host.repo
    /\ calls = <<>> /\ steps = <<>> /\ at = "check_git" /\ status = -1
    /\ prompting \in BOOLEAN
    /\ dirs = {<<>>} /\ files = {} /\ phase = "idle" /\ tool = "publish"
    /\ start = <<>> /\ located = NotFound /\ exitCode = -1 /\ touched = {}
    /\ cmds = <<>>
    /\ DepIdle
    /\ ExtractorNew
    /\ methodsDir = {} /\ classesDir = {} /\ pc = "idle" /\ todo = <<>>
    /\ methods = <<>> /\ classes = <<>> /\ output = NoOutput
    /\ sourcesDir = BareSources /\ WalkIdle

PublishNext ==
    \/ CheckGit
    \/ \E choice \in {"y", "n"}, install_ok \in BOOLEAN : CheckGh(choice, install_ok)
    \/ \E choice \in {"y", "n"}, init_ok \in BOOLEAN : SetupGit(choice, init_ok)
    \/ \E login_choice, create_choice \in {"y", "n"}, login_ok, typed, create_ok \in BOOLEAN :
           SetupGithubRepo(login_choice, login_ok, create_choice, typed, create_ok)

SpecPublish == PublishInit /\ [][PublishNext]_vars

(***************************************************************************)
(* Claims about the publisher (SpecPublish).                               *)
(***************************************************************************)
StepOrder == <<"check_git", "check_gh", "setup_git", "setup_github_repo">>

CreateAt == {i \in 1..Len(calls) : calls[i].cmd = "gh repo create"}

\* the command was run before place i and returned 0
RanBefore(i, cmd) == \E j \in 1..(i - 1) : calls[j] = Call(cmd, TRUE)

\* the last gh auth status before place i
LastAuthBefore(i) ==
    LET S == {j \in 1..(i - 1) : calls[j].cmd = "gh auth status"}
    IN  IF S = {} THEN 0 ELSE CHOOSE j \in S : \A k \in S : k <= j

\* C28: the steps run in the order tool check, git setup, repository
\* creation, each only if the one before returned True; gh repo create is
\* never run when git or gh is not available, when setup_git returned
\* False, when a remote origin exists, or when gh auth status last failed;
\* and main returns 0 only if setup_github_repo returned True.
C28_StepsInOrder ==
    /\ Len(steps) <= Len(StepOrder)
    /\ \A k \in 1..Len(steps) :
           /\ steps[k].step = StepOrder[k]
           /\ k > 1 => steps[k - 1].ok
    /\ \A i \in CreateAt :
           /\ RanBefore(i, "which git")
           /\ RanBefore(i, "which gh") \/ RanBefore(i, "brew install gh")
           /\ Len(steps) = 4 /\ steps[3] = Step("setup_git", TRUE)
           /\ \E j \in 1..(i - 1) : calls[j] = Call("git remote get-url origin", FALSE)
           /\ ~RanBefore(i, "git remote get-url origin")
           /\ LastAuthBefore(i) # 0 /\ calls[LastAuthBefore(i)].rc = 0
    /\ status = 0 => (Len(steps) = 4 /\ steps[4] = Step("setup_github_repo", TRUE))
    /\ (at = "returned") = (status # -1)
    /\ (status = 1) = (steps # <<>> /\ ~steps[Len(steps)].ok)

\* C28 witness: an interactive run that installs gh, initialises git, logs
\* in after a failed gh auth status, creates the repository and returns 0.
C28_Witness ==
    /\ status = 0
    /\ CreateAt # {}
    /\ \E j \in 1..Len(calls) : calls[j] = Call("brew install gh", TRUE)
    /\ \E j \in 1..Len(calls) : calls[j].cmd = "git init"
    /\ \E j \in 1..Len(calls) : calls[j] = Call("gh auth status", FALSE)
    /\ \E j \in 1..Len(calls) : calls[j] = Call("gh auth login", TRUE)
    /\ calls[Len(calls)] = Call("gh repo create", TRUE)

=============================================================================
